---- MODULE Spec2Model ----
(***************************************************************************)
(* Model of the media indexing core of photoprism:                         *)
(* internal/photoprism/index_mediafile.go (Index.MediaFile, classifyImage, *)
(* addLabels, indexLocation, estimateLocation).                            *)
(*                                                                         *)
(* The catalog (the relational store) is the record db.  A call of         *)
(* Index.MediaFile is the operator MediaFile(d, m, o, originalName, x):    *)
(* it maps the catalog d, the media file descriptor m, the options o and   *)
(* the outcome x of the store's writes to the catalog after the call, the  *)
(* events published and the IndexResult.  The sequential specifications    *)
(* run it as one action; SpecPar runs the same phases as separate steps    *)
(* of two workers.                                                         *)
(***************************************************************************)
EXTENDS Integers, Sequences, FiniteSets, TLC

VARIABLES
    db,       \* the catalog: photos, files, labels, photo-labels, dimension tables
    events,   \* the topics published by the last Index call, in order
    result,   \* the IndexResult of the last Index call
    op,       \* which operation made the last step
    inp,      \* the arguments of the last Index call
    calls,    \* Index calls made so far
    edits,    \* purge steps and user edits made so far
    supplied, \* the labels the last Index call handed to addLabels
    prev,     \* op, inp and result before the last step
    wk,       \* SpecPar, SpecLock: each worker's position and local variables
    locks     \* the cell locks held: pairs of a cell id and the worker holding it

vars == <<db, events, result, op, inp, calls, edits, supplied, prev, wk, locks>>

(***************************************************************************)
(* Bounds of the model.                                                    *)
(***************************************************************************)
MaxCalls == 3
MaxEdits == 1

(***************************************************************************)
(* time.Time: year, month, day and hour are all the indexer reads.  Go's   *)
(* zero time is January 1 of year 1, 00:00.                                *)
(***************************************************************************)
ZeroTime == [y |-> 1, mo |-> 1, d |-> 1, h |-> 0]
IsZero(t) == t = ZeroTime
Date(y, mo, d, h) == [y |-> y, mo |-> mo, d |-> d, h |-> h]

\* t.Format("2006"): the year in four digits.
Format2006(t) ==
    IF t.y < 10 THEN "000" \o ToString(t.y)
    ELSE IF t.y < 100 THEN "00" \o ToString(t.y)
    ELSE IF t.y < 1000 THEN "0" \o ToString(t.y)
    ELSE ToString(t.y)

\* The day count DATEDIFF works on (months of 31 days).
DayNo(t) == (t.y * 12 + t.mo) * 31 + t.d
Abs(n) == IF n < 0 THEN -n ELSE n

(***************************************************************************)
(* Status values of an IndexResult.                                        *)
(***************************************************************************)
IndexUpdated == "updated"
IndexAdded == "added"
IndexSkipped == "skipped"
IndexFailed == "failed"

ZeroResult ==
    [Status |-> "", Error |-> "", FileID |-> 0, FileUUID |-> "",
     PhotoID |-> 0, PhotoUUID |-> ""]

\* Line 42 without the test of FileID.
SuccessNoFile(r) == r.Error = ""

\* Lines 41-43
Success(r) == r.Error = "" /\ r.FileID > 0

(***************************************************************************)
(* Entities.  A zero value is what Go's var declaration gives.             *)
(***************************************************************************)
ZeroDescription ==
    [PhotoDescription |-> "", PhotoNotes |-> "", PhotoSubject |-> "",
     PhotoKeywords |-> <<>>, PhotoArtist |-> "", PhotoCopyright |-> ""]

UnknownPlace == [ID |-> "zz", LocCountry |-> "zz"]
ZeroPlace == [ID |-> "", LocCountry |-> ""]

ZeroPhoto ==
    [ID |-> 0, PhotoUUID |-> "", PhotoPath |-> "", PhotoName |-> "",
     PhotoTitle |-> "", ModifiedTitle |-> FALSE,
     TakenAt |-> ZeroTime, TakenAtLocal |-> ZeroTime, TimeZone |-> "",
     ModifiedDate |-> FALSE,
     PhotoLat |-> 0, PhotoLng |-> 0, PhotoAltitude |-> 0,
     ModifiedLocation |-> FALSE,
     LocationID |-> "", PlaceID |-> "", Place |-> ZeroPlace,
     PhotoCountry |-> "", LocationEstimated |-> FALSE,
     PhotoYear |-> 0, PhotoMonth |-> 0,
     PhotoNSFW |-> FALSE, PhotoFavorite |-> FALSE,
     ModifiedCamera |-> FALSE, CameraID |-> 0, LensID |-> 0,
     PhotoExposure |-> "", CameraSerial |-> "",
     Description |-> ZeroDescription]

ZeroFile ==
    [ID |-> 0, FileUUID |-> "", PhotoID |-> 0, PhotoUUID |-> "",
     FileName |-> "", FileHash |-> "", FileSize |-> 0, FileModified |-> 0,
     FileType |-> "", FilePrimary |-> FALSE, FileSidecar |-> FALSE,
     FileVideo |-> FALSE, FileMissing |-> FALSE, Deleted |-> FALSE,
     OriginalName |-> "", FileMainColor |-> "", FileWidth |-> 0,
     FileHeight |-> 0, FilePortrait |-> FALSE]

NoTitle(p) == p.PhotoTitle = ""
NoLocation(p) == p.LocationID = ""
HasPlace(p) == p.PlaceID # "" /\ p.PlaceID # UnknownPlace.ID
NoCameraSerial(p) == p.CameraSerial = ""
NoDescription(dsc) == dsc.PhotoDescription = ""
NoNotes(dsc) == dsc.PhotoNotes = ""
NoSubject(dsc) == dsc.PhotoSubject = ""
NoKeywords(dsc) == dsc.PhotoKeywords = <<>>
NoArtist(dsc) == dsc.PhotoArtist = ""
NoCopyright(dsc) == dsc.PhotoCopyright = ""

(***************************************************************************)
(* The empty catalog.                                                      *)
(***************************************************************************)
EmptyDb ==
    [photos |-> <<>>, files |-> <<>>, labels |-> <<>>, photoLabels |-> {},
     categories |-> {}, locations |-> {}, places |-> {}, countries |-> {},
     cameras |-> <<>>, lenses |-> <<>>, downloads |-> {}]

Ids(rows) == 1..Len(rows)
Min(S) == CHOOSE x \in S : \A y \in S : x <= y

\* gorm's First: the row with the lowest primary key that matches, 0 if none.
FirstId(hit) == IF hit = {} THEN 0 ELSE Min(hit)

(***************************************************************************)
(* Strings.  txt.Title capitalises a label or category name; a label's     *)
(* slug is its lower-case, URL-safe form, the natural key of the labels    *)
(* table.                                                                  *)
(***************************************************************************)
Contains(s, sub) ==
    \E i \in 0..(Len(s) - Len(sub)) : SubSeq(s, i + 1, i + Len(sub)) = sub

Title(s) ==
    CASE s = "dog" -> "Dog"
      [] s = "cat" -> "Cat"
      [] s = "animal" -> "Animal"
      [] s = "square" -> "Square"
      [] s = "marienplatz" -> "Marienplatz"
      [] OTHER -> s

Slug(s) ==
    CASE s = "Dog" -> "dog"
      [] s = "Cat" -> "cat"
      [] s = "Animal" -> "animal"
      [] s = "Square" -> "square"
      [] s = "Marienplatz" -> "marienplatz"
      [] OTHER -> s

\* The single element of S.  { F(v) : v \in {e} } evaluates e once and hands
\* its value to F: this is how a local variable of the code is bound.
The(S) == CHOOSE v \in S : TRUE

AddWord(init, word) ==
    IF word = "" \/ \E i \in 1..Len(init) : init[i] = word THEN init
    ELSE Append(init, word)

RECURSIVE UniqueWords(_)
\* The words of w without the empty word, each once, in first-seen order.
UniqueWords(w) ==
    IF w = <<>> THEN <<>>
    ELSE The({AddWord(init, w[Len(w)]) : init \in {UniqueWords(SubSeq(w, 1, Len(w) - 1))}})

RECURSIVE Flatten(_)
Flatten(ss) == IF ss = <<>> THEN <<>> ELSE Head(ss) \o Flatten(Tail(ss))

(***************************************************************************)
(* The inputs of Index.MediaFile: IndexOptions, the MediaFile descriptor   *)
(* with what its accessors and the external analyses return for it, and    *)
(* the environment of the call (configuration, failing store writes).      *)
(***************************************************************************)
NoOptions ==
    [SkipUnchanged |-> FALSE, UpdateExif |-> FALSE, UpdateCamera |-> FALSE,
     UpdateColors |-> FALSE, UpdateSize |-> FALSE, UpdateKeywords |-> FALSE,
     UpdateLabels |-> FALSE, UpdateTitle |-> FALSE, UpdateLocation |-> FALSE]

ZeroMeta ==
    [Lat |-> 0, Lng |-> 0, Altitude |-> 0, TakenAt |-> ZeroTime,
     TakenAtLocal |-> ZeroTime, TimeZone |-> "", Title |-> "",
     Description |-> "", Comment |-> "", Subject |-> "", Keywords |-> <<>>,
     Artist |-> "", CameraOwner |-> "", CameraSerial |-> "", UniqueID |-> ""]

ZeroXMP ==
    [Title |-> "", Copyright |-> "", Artist |-> "", Description |-> "",
     Comment |-> ""]

ZeroLocation ==
    [ID |-> "", PlaceID |-> "", LocCountry |-> "", CountryName |-> "",
     City |-> "", Name |-> "", Category |-> "", Keywords |-> <<>>]

Label(name, uncertainty, priority, source, categories) ==
    [Name |-> name, Uncertainty |-> uncertainty, Priority |-> priority,
     Source |-> source, Categories |-> categories]

\* classify.LocationLabel
LocationLabel(name, uncertainty, priority) ==
    Label(name, uncertainty, priority, "location", <<>>)

DefaultEnv ==
    [TensorFlowDisabled |-> FALSE, DetectNSFW |-> TRUE,
     PhotoWriteFails |-> FALSE, FileWriteFails |-> FALSE,
     GeoCodingFails |-> FALSE, TrackerFails |-> FALSE]

\* m.MetaData(): the data, or zero data with an error.
MetaData(m) == IF m.MetaErr THEN ZeroMeta ELSE m.Meta

HasTimeAndPlace(m) ==
    ~m.MetaErr /\ m.Meta.Lat # 0 /\ m.Meta.Lng # 0 /\ ~IsZero(m.Meta.TakenAt)

\* File.Changed(fileSize, fileModified)
Changed(file, fileSize, fileModified) ==
    file.FileSize # fileSize \/ file.FileModified # fileModified

(***************************************************************************)
(* Identification (lines 80-111): the file row by name, else by hash; the  *)
(* photo row by path and name, else by coordinates and time, or by the     *)
(* file row's photo id.  First does not load associations: the Description *)
(* and the Place of the photo struct stay zero.                            *)
(***************************************************************************)
LoadPhoto(row) == [row EXCEPT !.Description = ZeroDescription, !.Place = ZeroPlace]

FileByName(d, fileName) == FirstId({i \in Ids(d.files) : d.files[i].FileName = fileName})

FileByHash(d, fileHash) == FirstId({i \in Ids(d.files) : d.files[i].FileHash = fileHash})

\* Lines 95-97 finding no row.
PhotoByPathNameLost(d, filePath, fileBase) == 0

\* Lines 95-97
PhotoByPathName(d, filePath, fileBase) ==
    FirstId({i \in Ids(d.photos) : /\ d.photos[i].PhotoPath = filePath
                                    /\ d.photos[i].PhotoName = fileBase})

PhotoByPlaceTime(d, md) ==
    FirstId({i \in Ids(d.photos) : /\ d.photos[i].PhotoLat = md.Lat
                                    /\ d.photos[i].PhotoLng = md.Lng
                                    /\ d.photos[i].TakenAt = md.TakenAt})

\* Lines 80-87 without the test of IsSidecar at line 83.
FileIdAnyHash(d, m) ==
    LET byName == FileByName(d, m.FileName)
    IN  IF byName # 0 THEN byName ELSE FileByHash(d, m.Hash)

\* Lines 80-87
FileId(d, m) ==
    LET byName == FileByName(d, m.FileName)
    IN  IF byName # 0 THEN byName
        ELSE IF ~m.IsSidecar THEN FileByHash(d, m.Hash) ELSE 0

PhotoId(d, m, fid) ==
    IF fid # 0
    THEN (IF d.files[fid].PhotoID \in Ids(d.photos) THEN d.files[fid].PhotoID ELSE 0)
    ELSE LET byPathName == PhotoByPathName(d, m.Path, m.Base)
         IN  IF byPathName # 0 THEN byPathName
             ELSE IF HasTimeAndPlace(m) THEN PhotoByPlaceTime(d, MetaData(m)) ELSE 0

Found(d, m, fid, pid) ==
    [file |-> IF fid # 0 THEN d.files[fid] ELSE ZeroFile,
     photo |-> IF pid # 0 THEN LoadPhoto(d.photos[pid]) ELSE ZeroPhoto,
     fileExists |-> fid # 0,
     photoExists |-> pid # 0,
     fileChanged |-> IF fid # 0 THEN Changed(d.files[fid], m.Size, m.Modified)
                     ELSE TRUE]

Lookup(d, m) ==
    The({The({Found(d, m, fid, pid) : pid \in {PhotoId(d, m, fid)}})
         : fid \in {FileId(d, m)}})

\* Line 108 with the negation of fileChanged left out.
SkipsChanged(c, o) == c.fileChanged /\ c.photoExists /\ o.SkipUnchanged

\* Line 108: the call returns Skipped before any write.
Skips(c, o) == ~c.fileChanged /\ c.photoExists /\ o.SkipUnchanged

(***************************************************************************)
(* Primary-file election (lines 124-132).  The query for an existing       *)
(* primary is scoped: it does not see soft-deleted file rows.              *)
(***************************************************************************)
HasPrimaryJpg(d, photoId) ==
    \E i \in Ids(d.files) :
        /\ d.files[i].FileType = "jpg"
        /\ d.files[i].FilePrimary
        /\ d.files[i].PhotoID = photoId
        /\ ~d.files[i].Deleted

ElectPrimary(d, c, m) ==
    IF c.file.FilePrimary THEN TRUE
    ELSE IF c.photoExists
         THEN (IF HasPrimaryJpg(d, c.photo.ID) THEN FALSE ELSE m.IsJpeg)
         ELSE m.IsJpeg

(***************************************************************************)
(* classifyImage (lines 440-491) and isNSFW (lines 414-437).               *)
(***************************************************************************)
\* classify.Labels.Less: priority descending, then uncertainty ascending.
LabelLess(a, b) ==
    IF a.Priority = b.Priority THEN a.Uncertainty < b.Uncertainty
    ELSE a.Priority > b.Priority

\* The label behind the labels of sorted that are not greater.
InsertLabel(sorted, label) ==
    LET k == Cardinality({i \in 1..Len(sorted) : ~LabelLess(label, sorted[i])})
    IN  SubSeq(sorted, 1, k) \o <<label>> \o SubSeq(sorted, k + 1, Len(sorted))

RECURSIVE SortLabels(_)
\* sort.Sort(labels)
SortLabels(l) ==
    IF l = <<>> THEN <<>>
    ELSE The({InsertLabel(init, l[Len(l)]) : init \in {SortLabels(SubSeq(l, 1, Len(l) - 1))}})

RECURSIVE FilterLabels(_, _)
\* Lines 474-484: keep the labels whose confidence exceeds a third of the first.
FilterLabels(labels, confidence) ==
    IF labels = <<>> THEN <<>>
    ELSE The({(IF (100 - Head(labels).Uncertainty) > (conf \div 3)
               THEN <<Head(labels)>> ELSE <<>>) \o FilterLabels(Tail(labels), conf)
              : conf \in {IF confidence = 0 THEN 100 - Head(labels).Uncertainty
                          ELSE confidence}})

Thumbs(m) ==
    IF m.AspectRatio = 1 THEN <<"tile_224">>
    ELSE <<"tile_224", "left_224", "right_224">>

ThumbLabels(m) ==
    Flatten([i \in 1..Len(Thumbs(m)) |->
                IF m.Classify[Thumbs(m)[i]].Err THEN <<>>
                ELSE m.Classify[Thumbs(m)[i]].Labels])

classifyImage(m) ==
    The({FilterLabels(sorted, 0) : sorted \in {SortLabels(ThumbLabels(m))}})

isNSFW(m, x) ==
    IF ~x.DetectNSFW THEN FALSE
    ELSE IF m.NSFW.Err THEN FALSE
    ELSE m.NSFW.NSFW

\* classify.Labels.Keywords: the names and categories of the labels, as words.
LabelKeywords(labels) ==
    Flatten([i \in 1..Len(labels) |->
        <<Slug(labels[i].Name)>> \o [j \in 1..Len(labels[i].Categories) |->
                                        Slug(labels[i].Categories[j])]])

\* classify.Labels.Title: the name of the best label if it is salient, else the fallback.
LabelsTitle(labels, fallback) ==
    IF labels = <<>> THEN fallback
    ELSE The({IF label.Priority < 0 \/ label.Uncertainty > 60 THEN fallback
              ELSE label.Name
              : label \in {SortLabels(labels)[1]}})

\* txt.Keywords: the words of a string (here: the string itself if long enough).
Keywords(s) == IF Len(s) < 3 THEN <<>> ELSE <<s>>

(***************************************************************************)
(* The EXIF merge (lines 143-196).  photo is the struct as loaded: its     *)
(* Description is the struct's field, not the row loaded by line 114.      *)
(***************************************************************************)
MergeLocation(photo, md) ==
    IF ~photo.ModifiedLocation
    THEN [photo EXCEPT !.PhotoLat = md.Lat, !.PhotoLng = md.Lng,
                       !.PhotoAltitude = md.Altitude]
    ELSE photo

MergeDate(photo, md) ==
    IF ~photo.ModifiedDate
    THEN [photo EXCEPT !.TakenAt = md.TakenAt, !.TakenAtLocal = md.TakenAtLocal,
                       !.TimeZone = md.TimeZone]
    ELSE photo

MergeTitle(photo, md) ==
    IF NoTitle(photo) THEN [photo EXCEPT !.PhotoTitle = md.Title] ELSE photo

MergeDescription(dsc, md) ==
    LET d1 == IF NoDescription(dsc)
              THEN [dsc EXCEPT !.PhotoDescription = md.Description] ELSE dsc
        d2 == IF NoNotes(d1) THEN [d1 EXCEPT !.PhotoNotes = md.Comment] ELSE d1
        d3 == IF NoSubject(d2) THEN [d2 EXCEPT !.PhotoSubject = md.Subject] ELSE d2
        d4 == IF NoKeywords(d3) THEN [d3 EXCEPT !.PhotoKeywords = md.Keywords] ELSE d3
        d5 == IF NoArtist(d4) /\ md.Artist # ""
              THEN [d4 EXCEPT !.PhotoArtist = md.Artist] ELSE d4
        d6 == IF NoArtist(d5) /\ md.CameraOwner # ""
              THEN [d5 EXCEPT !.PhotoArtist = md.CameraOwner] ELSE d5
    IN  d6

MergeExif(photo, md) ==
    LET p1 == MergeTitle(MergeDate(MergeLocation(photo, md), md), md)
        p2 == [p1 EXCEPT !.Description = MergeDescription(p1.Description, md)]
    IN  IF NoCameraSerial(p2) THEN [p2 EXCEPT !.CameraSerial = md.CameraSerial]
        ELSE p2

\* Lines 190-194: a long UniqueID of the metadata becomes the FileUUID.
MergeFileUUID(file, md) ==
    IF Len(md.UniqueID) > 15 THEN [file EXCEPT !.FileUUID = md.UniqueID] ELSE file

(***************************************************************************)
(* Camera and lens (lines 198-206): first-or-create by (model, make).      *)
(***************************************************************************)
InternId(rows, key) ==
    LET id == FirstId({i \in Ids(rows) : rows[i] = key})
    IN  IF id = 0 THEN Len(rows) + 1 ELSE id

Intern(rows, key) ==
    IF FirstId({i \in Ids(rows) : rows[i] = key}) = 0 THEN Append(rows, key) ELSE rows

CameraLens(d, photo, m) ==
    [photo |-> [photo EXCEPT !.CameraID = InternId(d.cameras, m.Camera),
                             !.LensID = InternId(d.lenses, m.Lens),
                             !.PhotoExposure = m.Exposure],
     db |-> [d EXCEPT !.cameras = Intern(@, m.Camera),
                      !.lenses = Intern(@, m.Lens)]]

(***************************************************************************)
(* indexLocation (lines 535-616).                                          *)
(***************************************************************************)
\* Location.Find: the stored location of the cell, else the geocoder's answer,
\* which is stored together with its place.
Find(d, location, x) ==
    IF location.ID \in d.locations
    THEN [Err |-> FALSE, PlaceNew |-> FALSE, db |-> d]
    ELSE IF x.GeoCodingFails
    THEN [Err |-> TRUE, PlaceNew |-> FALSE, db |-> d]
    ELSE [Err |-> FALSE,
          PlaceNew |-> \A pl \in d.places : pl.ID # location.PlaceID,
          db |-> [d EXCEPT
                    !.locations = @ \cup {location.ID},
                    !.places = @ \cup {[ID |-> location.PlaceID,
                                        LocCountry |-> location.LocCountry]}]]

NoCity(location) == location.City = ""
LongCity(location) == Len(location.City) > 16
CityContains(location, text) == Contains(location.City, text)

\* Lines 577-598: the title from the best label or the location's name and city.
TitleFormat(photo, location, title, year) ==
    IF title # ""
    THEN (IF NoCity(location) \/ LongCity(location) \/ CityContains(location, title)
          THEN Title(title) \o " / " \o location.CountryName \o " / " \o year
          ELSE Title(title) \o " / " \o location.City \o " / " \o year)
    ELSE IF location.Name # "" /\ location.City # ""
    THEN (IF Len(location.Name) > 45 THEN Title(location.Name)
          ELSE IF Len(location.Name) > 20 \/ Len(location.City) > 16
                  \/ Contains(location.Name, location.City)
          THEN location.Name \o " / " \o year
          ELSE location.Name \o " / " \o location.City \o " / " \o year)
    ELSE IF location.City # "" /\ location.CountryName # ""
    THEN (IF Len(location.City) > 20 THEN location.City \o " / " \o year
          ELSE location.City \o " / " \o location.CountryName \o " / " \o year)
    ELSE photo.PhotoTitle

LocationTitle(photo, location, labels) ==
    The({TitleFormat(photo, location, title, Format2006(photo.TakenAt))
         : title \in {LabelsTitle(labels, location.Name)}})

\* Lines 547-605: the lookup succeeded.
Located(found, location, photo, labels, fileChanged, o) ==
    LET place == [ID |-> location.PlaceID, LocCountry |-> location.LocCountry]
        p1 == [photo EXCEPT !.LocationID = location.ID, !.Place = place,
                            !.PlaceID = location.PlaceID,
                            !.LocationEstimated = FALSE,
                            !.PhotoCountry = place.LocCountry]
        l1 == IF location.Category # ""
              THEN Append(labels, LocationLabel(location.Category, 0, -1))
              ELSE labels
    IN  [keywords |-> location.Keywords,
         labels |-> l1,
         photo |-> IF (fileChanged \/ o.UpdateTitle) /\ ~photo.ModifiedTitle
                   THEN [p1 EXCEPT !.PhotoTitle = LocationTitle(p1, location, l1)]
                   ELSE p1,
         db |-> [found.db EXCEPT !.countries = @ \cup {location.LocCountry}],
         events |-> (IF found.PlaceNew THEN <<"count.places">> ELSE <<>>)
                    \o (IF location.LocCountry \notin found.db.countries
                        THEN <<"count.countries">> ELSE <<>>)]

\* Lines 606-613: no location, or the lookup failed.
NotLocated(d, photo, labels) ==
    [keywords |-> <<>>,
     labels |-> labels,
     photo |-> [photo EXCEPT !.Place = UnknownPlace,
                             !.PlaceID = UnknownPlace.ID,
                             !.PhotoCountry = UnknownPlace.LocCountry],
     db |-> d,
     events |-> <<>>]

indexLocation(d, m, photo, labels, fileChanged, o, x) ==
    IF m.LocationErr THEN NotLocated(d, photo, labels)
    ELSE The({IF found.Err THEN NotLocated(d, photo, labels)
              ELSE Located(found, m.Location, photo, labels, fileChanged, o)
              : found \in {Find(d, m.Location, x)}})

(***************************************************************************)
(* Title synthesis (lines 214-236) and the date fallback (lines 238-241).  *)
(***************************************************************************)
Daytime(hour) ==
    IF hour < 17 THEN "Unknown" ELSE IF hour < 20 THEN "Sunset" ELSE "Unknown"

\* Line 214 without the test of ModifiedTitle.
SynthesisesModified(photo, fileChanged, o) ==
    NoTitle(photo) \/ ((fileChanged \/ o.UpdateTitle) /\ NoLocation(photo))

\* Line 214: whether a title is synthesised.
Synthesises(photo, fileChanged, o) ==
    NoTitle(photo)
    \/ ((fileChanged \/ o.UpdateTitle) /\ ~photo.ModifiedTitle /\ NoLocation(photo))

SynthTitle(photo, labels, m, fileChanged, o) ==
    IF Synthesises(photo, fileChanged, o)
    THEN IF Len(labels) > 0 /\ labels[1].Priority >= -1
            /\ labels[1].Uncertainty <= 85 /\ labels[1].Name # ""
         THEN [photo EXCEPT !.PhotoTitle =
                  Title(labels[1].Name) \o " / " \o Format2006(m.DateCreated)]
         ELSE IF ~IsZero(photo.TakenAtLocal)
         THEN [photo EXCEPT !.PhotoTitle =
                  Daytime(photo.TakenAtLocal.h) \o " / " \o Format2006(photo.TakenAtLocal)]
         ELSE [photo EXCEPT !.PhotoTitle = "Unknown"]
    ELSE photo

DateFallback(photo, m) ==
    IF IsZero(photo.TakenAt) \/ IsZero(photo.TakenAtLocal)
    THEN [photo EXCEPT !.TakenAt = m.DateCreated, !.TakenAtLocal = m.DateCreated]
    ELSE photo

(***************************************************************************)
(* The branch of a primary file (lines 134-241).                           *)
(***************************************************************************)
Classified(c, o, x) ==
    ~x.TensorFlowDisabled
    /\ (c.fileChanged \/ o.UpdateKeywords \/ o.UpdateLabels \/ o.UpdateTitle)

Merged(c, m, o) == (c.fileChanged \/ o.UpdateExif) /\ ~m.MetaErr

\* Lines 137-196: classification and the EXIF merge.
Analysed(c, m, o, x) ==
    LET p0 == IF Classified(c, o, x) THEN [c.photo EXCEPT !.PhotoNSFW = isNSFW(m, x)]
              ELSE c.photo
    IN  [labels |-> IF Classified(c, o, x) THEN classifyImage(m) ELSE <<>>,
         photo |-> IF Merged(c, m, o) THEN MergeExif(p0, m.Meta) ELSE p0,
         file |-> IF Merged(c, m, o) THEN MergeFileUUID(c.file, m.Meta) ELSE c.file]

\* Lines 198-206
WithCamera(d, c, m, o, photo) ==
    IF ~photo.ModifiedCamera /\ (c.fileChanged \/ o.UpdateCamera)
    THEN CameraLens(d, photo, m) ELSE [photo |-> photo, db |-> d]

\* Lines 208-212: the caller appends the labels indexLocation returns to its own.
WithLocation(d, c, m, o, x, photo, labels) ==
    IF c.fileChanged \/ o.UpdateKeywords \/ o.UpdateLocation \/ o.UpdateTitle
    THEN The({[loc EXCEPT !.labels = labels \o @]
              : loc \in {indexLocation(d, m, photo, labels, c.fileChanged, o, x)}})
    ELSE [keywords |-> <<>>, labels |-> labels, photo |-> photo, db |-> d,
          events |-> <<>>]

\* Lines 214-241
Titled(c, m, o, an, loc) ==
    The({[photo |-> DateFallback(p2, m), file |-> an.file, labels |-> loc.labels,
          locKeywords |-> loc.keywords, db |-> loc.db, events |-> loc.events]
         : p2 \in {SynthTitle(loc.photo, loc.labels, m, c.fileChanged, o)}})

PrimaryBranch(d, c, m, o, x) ==
    The({The({The({Titled(c, m, o, an, loc)
                   : loc \in {WithLocation(cam.db, c, m, o, x, cam.photo, an.labels)}})
              : cam \in {WithCamera(d, c, m, o, an.photo)}})
         : an \in {Analysed(c, m, o, x)}})

(***************************************************************************)
(* The branch of an XMP sidecar (lines 242-265).                           *)
(***************************************************************************)
XMPBranch(photo, m) ==
    IF m.XMPErr THEN photo
    ELSE LET data == m.XMP
             p1 == IF data.Title # "" /\ ~photo.ModifiedTitle
                   THEN [photo EXCEPT !.PhotoTitle = data.Title] ELSE photo
             d0 == p1.Description
             d1 == IF NoCopyright(d0) /\ data.Copyright # ""
                   THEN [d0 EXCEPT !.PhotoCopyright = data.Copyright] ELSE d0
             d2 == IF NoArtist(d1) /\ data.Artist # ""
                   THEN [d1 EXCEPT !.PhotoArtist = data.Artist] ELSE d1
             d3 == IF NoDescription(d2) /\ data.Description # ""
                   THEN [d2 EXCEPT !.PhotoDescription = data.Description] ELSE d2
             d4 == IF NoNotes(d3) /\ data.Comment # ""
                   THEN [d3 EXCEPT !.PhotoNotes = data.Comment] ELSE d3
         IN  [p1 EXCEPT !.Description = d4]

(***************************************************************************)
(* The file struct (lines 270-305) and keyword synthesis (lines 307-327).  *)
(***************************************************************************)
\* Lines 270-283 without the assignment of FileSize (line 279).
FileFieldsNoSize(file, m, originalName) ==
    [file EXCEPT !.OriginalName = IF originalName # "" THEN originalName ELSE @,
                 !.FileSidecar = m.IsSidecar,
                 !.FileVideo = m.IsVideo,
                 !.FileMissing = FALSE,
                 !.FileName = m.FileName,
                 !.FileHash = m.Hash,
                 !.FileModified = m.Modified,
                 !.FileType = m.FileType]

FileFields(file, m, originalName) ==
    [file EXCEPT !.OriginalName = IF originalName # "" THEN originalName ELSE @,
                 !.FileSidecar = m.IsSidecar,
                 !.FileVideo = m.IsVideo,
                 !.FileMissing = FALSE,
                 !.FileName = m.FileName,
                 !.FileHash = m.Hash,
                 !.FileSize = m.Size,
                 !.FileModified = m.Modified,
                 !.FileType = m.FileType]

\* Variant: the colors are extracted whatever the options.
FileColorsUngated(file, m, fileChanged, o) ==
    IF m.IsJpeg /\ ~m.ColorsErr
    THEN [file EXCEPT !.FileMainColor = m.MainColor]
    ELSE file

FileColors(file, m, fileChanged, o) ==
    IF m.IsJpeg /\ (fileChanged \/ o.UpdateColors) /\ ~m.ColorsErr
    THEN [file EXCEPT !.FileMainColor = m.MainColor]
    ELSE file

FileSize(file, m, fileChanged, o) ==
    IF m.IsJpeg /\ (fileChanged \/ o.UpdateSize) /\ m.Width > 0 /\ m.Height > 0
    THEN [file EXCEPT !.FileWidth = m.Width, !.FileHeight = m.Height,
                      !.FilePortrait = m.Width < m.Height]
    ELSE file

SynthKeywords(photo, file, m, labels, locKeywords) ==
    LET w == photo.Description.PhotoKeywords
             \o (IF m.NonCanonical THEN Keywords(m.Path) \o Keywords(m.Base) ELSE <<>>)
             \o locKeywords
             \o Keywords(file.OriginalName)
             \o <<file.FileMainColor>>
             \o LabelKeywords(labels)
    IN  [photo EXCEPT !.Description.PhotoKeywords = UniqueWords(w)]

(***************************************************************************)
(* addLabels (lines 493-533).                                              *)
(***************************************************************************)
LabelBySlug(d, slug) == FirstId({i \in Ids(d.labels) : d.labels[i].LabelSlug = slug})

\* entity.NewLabel(name, priority).FirstOrCreate
FirstOrCreateLabel(d, name, priority) ==
    LET id == LabelBySlug(d, Slug(name))
    IN  IF id # 0 THEN [db |-> d, ID |-> id, New |-> FALSE]
        ELSE [db |-> [d EXCEPT !.labels =
                        Append(@, [ID |-> Len(@) + 1, LabelSlug |-> Slug(name),
                                   LabelName |-> name, LabelPriority |-> priority])],
              ID |-> Len(d.labels) + 1, New |-> TRUE]

PhotoLabelOf(d, photoId, labelId) ==
    {pl \in d.photoLabels : pl.PhotoID = photoId /\ pl.LabelID = labelId}

\* entity.NewPhotoLabel(...).FirstOrCreate: the stored edge, else a new one.
FirstOrCreatePhotoLabel(d, photoId, labelId, uncertainty, source) ==
    LET new == [PhotoID |-> photoId, LabelID |-> labelId,
                LabelUncertainty |-> uncertainty, LabelSource |-> source]
    IN  IF PhotoLabelOf(d, photoId, labelId) # {}
        THEN [db |-> d, plm |-> CHOOSE pl \in PhotoLabelOf(d, photoId, labelId) : TRUE]
        ELSE [db |-> [d EXCEPT !.photoLabels = @ \cup {new}], plm |-> new]

RECURSIVE AddCategories(_, _, _)
\* Lines 518-523: each category is a label of priority -3 linked to the label.
AddCategories(d, labelId, categories) ==
    IF categories = <<>> THEN d
    ELSE The({The({AddCategories(d1, labelId, Tail(categories))
                   : d1 \in {[sn.db EXCEPT !.categories = @ \cup {<<labelId, sn.ID>>}]}})
              : sn \in {FirstOrCreateLabel(d, Title(Head(categories)), -3)}})

\* Lines 525-531 with the comparison of line 525 turned around.
ConfidenceLoses(d, plm, label) ==
    IF plm.LabelUncertainty < label.Uncertainty
    THEN [d EXCEPT !.photoLabels =
            (@ \ {plm}) \cup {[plm EXCEPT !.LabelUncertainty = label.Uncertainty,
                                          !.LabelSource = label.Source]}]
    ELSE d

\* Lines 525-531: the stored edge takes a lower uncertainty and its source.
ConfidenceWins(d, plm, label) ==
    IF plm.LabelUncertainty > label.Uncertainty
    THEN [d EXCEPT !.photoLabels =
            (@ \ {plm}) \cup {[plm EXCEPT !.LabelUncertainty = label.Uncertainty,
                                          !.LabelSource = label.Source]}]
    ELSE d

\* Lines 507-513
WithPriority(lm, label) ==
    IF lm.db.labels[lm.ID].LabelPriority # label.Priority
    THEN [lm.db EXCEPT !.labels[lm.ID].LabelPriority = label.Priority]
    ELSE lm.db

\* Lines 515-531
Linked(lm, pl, label) ==
    The({ConfidenceWins(d2, pl.plm, label)
         : d2 \in {AddCategories(pl.db, lm.ID, label.Categories)}})

\* Lines 497-505 without the test of lm.New.
LabelEventsAlways(lm, label) ==
    <<"labels.created">> \o (IF label.Priority >= 0 THEN <<"count.labels">> ELSE <<>>)

\* Lines 497-505
LabelEvents(lm, label) ==
    IF lm.New
    THEN <<"labels.created">>
         \o (IF label.Priority >= 0 THEN <<"count.labels">> ELSE <<>>)
    ELSE <<>>

addLabel(d, photoId, label) ==
    The({The({The({[db |-> Linked(lm, pl, label), events |-> LabelEvents(lm, label)]
                   : pl \in {FirstOrCreatePhotoLabel(d1, photoId, lm.ID,
                                                     label.Uncertainty, label.Source)}})
              : d1 \in {WithPriority(lm, label)}})
         : lm \in {FirstOrCreateLabel(d, Title(label.Name), label.Priority)}})

RECURSIVE addLabels(_, _, _)
addLabels(d, photoId, labels) ==
    IF labels = <<>> THEN [db |-> d, events |-> <<>>]
    ELSE The({The({[db |-> rest.db, events |-> first.events \o rest.events]
                   : rest \in {addLabels(first.db, photoId, Tail(labels))}})
              : first \in {addLabel(d, photoId, Head(labels))}})

(***************************************************************************)
(* estimateLocation (lines 618-629): the photo closest in days, with its   *)
(* place preloaded.  Equal distances resolve to the lowest id.             *)
(***************************************************************************)
PlaceOf(d, placeId) ==
    IF \E pl \in d.places : pl.ID = placeId
    THEN CHOOSE pl \in d.places : pl.ID = placeId
    ELSE ZeroPlace

RecentPhotoId(d, takenAt) ==
    LET dist(i) == Abs(DayNo(d.photos[i].TakenAt) - DayNo(takenAt))
        near == {i \in Ids(d.photos) : \A j \in Ids(d.photos) : dist(i) <= dist(j)}
    IN  IF near = {} THEN 0 ELSE Min(near)

estimateLocation(d, photo) ==
    LET id == RecentPhotoId(d, photo.TakenAt)
    IN  IF id # 0 /\ HasPlace(d.photos[id])
        THEN LET place == PlaceOf(d, d.photos[id].PlaceID)
             IN  [photo EXCEPT !.Place = place, !.PhotoCountry = place.LocCountry,
                               !.LocationEstimated = TRUE]
        ELSE photo

(***************************************************************************)
(* The store's writes.  Save and Create write every column of the struct   *)
(* and its associations that are not blank: the Description (has one) and  *)
(* the Place (belongs to, whose id becomes the photo's PlaceID).  A Save   *)
(* writes the deleted-at column as it was loaded.                          *)
(***************************************************************************)
PhotoRow(old, photo) ==
    [photo EXCEPT !.Place = ZeroPlace,
                  !.PlaceID = IF photo.Place # ZeroPlace THEN photo.Place.ID ELSE @,
                  !.Description = IF photo.Description = ZeroDescription
                                  THEN old.Description ELSE @]

WithPlace(d, photo) ==
    IF photo.Place # ZeroPlace THEN [d EXCEPT !.places = @ \cup {photo.Place}] ELSE d

SavePhoto(d, photo) ==
    [WithPlace(d, photo) EXCEPT !.photos[photo.ID] = PhotoRow(d.photos[photo.ID], photo)]

NewPhotoUUID(id) == "p" \o ToString(id)
NewFileUUID(id) == "f" \o ToString(id)

CreatePhoto(d, photo) ==
    LET id == Len(d.photos) + 1
        row == PhotoRow(ZeroPhoto, [photo EXCEPT !.ID = id,
                                                  !.PhotoUUID = NewPhotoUUID(id)])
    IN  [WithPlace(d, photo) EXCEPT !.photos = Append(@, row)]

\* Line 375 as a delete and an insert: the row is stored under a new id.
SaveFileMoved(d, file) == [d EXCEPT !.files[file.ID] = [file EXCEPT !.ID = Len(d.files) + 1]]

\* Line 375: Save writes the row of the struct's id.
SaveFile(d, file) == [d EXCEPT !.files[file.ID] = file]

CreateFile(d, file) ==
    LET id == Len(d.files) + 1
    IN  [d EXCEPT !.files = Append(@,
            [file EXCEPT !.ID = id,
                         !.FileUUID = IF @ = "" THEN NewFileUUID(id) ELSE @])]

(***************************************************************************)
(* Index.MediaFile in three phases: Prepare (lines 45-327) reads the       *)
(* catalog and builds the photo and file structs, PersistPhoto (lines      *)
(* 329-361) writes the photo and its labels, PersistFile (lines 363-410)   *)
(* writes the file row.                                                    *)
(***************************************************************************)
Failed(err) == [ZeroResult EXCEPT !.Status = IndexFailed, !.Error = err]

\* Lines 242-265: a file that is not primary.
OtherBranch(d, c, m) ==
    [photo |-> IF m.IsXMP THEN XMPBranch(c.photo, m) ELSE c.photo,
     file |-> c.file, labels |-> <<>>, locKeywords |-> <<>>,
     db |-> d, events |-> <<>>]

\* Lines 113-132
Elected(d, c, m) ==
    [c EXCEPT !.file.FilePrimary = ElectPrimary(d, c, m),
              !.photo.PhotoPath = m.Path,
              !.photo.PhotoName = m.Base]

\* Lines 267-327
\* Lines 73-78 moved behind the analysis.
AnnouncedLate(published) == published \o <<"index.indexing">>

\* Lines 73-78: index.indexing is published before the lookup.
Announced(published) == <<"index.indexing">> \o published

\* Lines 267-268 left out.
YearMonthKept(photo) == photo

\* Lines 267-268
YearMonth(photo) ==
    [photo EXCEPT !.PhotoYear = photo.TakenAt.y, !.PhotoMonth = photo.TakenAt.mo]

Prepared(c, m, o, originalName, br, file) ==
    LET p3 == YearMonth(br.photo)
    IN  [done |-> FALSE, db |-> br.db,
         events |-> Announced(br.events),
         photo |-> IF file.FilePrimary /\ (c.fileChanged \/ o.UpdateKeywords)
                   THEN SynthKeywords(p3, file, m, br.labels, br.locKeywords)
                   ELSE p3,
         file |-> file, labels |-> br.labels,
         photoExists |-> c.photoExists, fileExists |-> c.fileExists,
         downloadedAs |-> IF originalName # "" THEN originalName ELSE m.FileName]

Analyse(d, c, m, o, originalName, x) ==
    The({The({Prepared(c, m, o, originalName, br, file)
              : file \in {FileSize(FileColors(FileFields(br.file, m, originalName),
                                              m, c.fileChanged, o),
                                   m, c.fileChanged, o)}})
         : br \in {IF c.file.FilePrimary THEN PrimaryBranch(d, c, m, o, x)
                   ELSE OtherBranch(d, c, m)}})

Prepare(d, m, o, originalName, x) ==
    The({IF Skips(c, o)
         THEN [done |-> TRUE, db |-> d, events |-> Announced(<<>>),
               result |-> [ZeroResult EXCEPT !.Status = IndexSkipped]]
         ELSE The({Analyse(d, c1, m, o, originalName, x) : c1 \in {Elected(d, c, m)}})
         : c \in {Lookup(d, m)}})

\* Lines 329-356: the photo struct that is written.
Estimated(d, pr, o) ==
    IF pr.photoExists
    THEN (IF o.UpdateLocation /\ NoLocation(pr.photo)
          THEN estimateLocation(d, pr.photo) ELSE pr.photo)
    ELSE [pr.photo EXCEPT !.PhotoFavorite = FALSE]

Written(d, pr, photo) ==
    IF pr.photoExists THEN [db |-> SavePhoto(d, photo), ID |-> photo.ID]
    ELSE [db |-> CreatePhoto(d, photo), ID |-> Len(d.photos) + 1]

PersistPhoto(d, pr, o, x) ==
    IF x.PhotoWriteFails
    THEN [done |-> TRUE, db |-> d, events |-> <<>>, result |-> Failed("photo")]
    ELSE The({The({The({
            [done |-> FALSE, db |-> added.db,
             events |-> (IF pr.photoExists THEN <<>>
                         ELSE <<"count.photos", "photos.created">>) \o added.events,
             photo |-> [ID |-> w.ID, PhotoUUID |-> w.db.photos[w.ID].PhotoUUID]]
            : added \in {addLabels(w.db, w.ID, pr.labels)}})
          : w \in {Written(d, pr, photo)}})
         : photo \in {Estimated(d, pr, o)}})

\* Lines 363-398 with the returns of lines 381 and 390 left out: the error
\* of the write is logged only.
FileWrittenLogged(d, pr, file, res, x) ==
    IF x.FileWriteFails
    THEN [db |-> d, result |-> [res EXCEPT !.Status = IndexUpdated]]
    ELSE IF pr.fileExists
    THEN [db |-> SaveFile(d, file),
          result |-> [res EXCEPT !.Status = IndexUpdated, !.FileID = file.ID,
                                 !.FileUUID = file.FileUUID]]
    ELSE The({[db |-> d1,
               result |-> [res EXCEPT !.Status = IndexAdded, !.FileID = Len(d1.files),
                              !.FileUUID = d1.files[Len(d1.files)].FileUUID]]
              : d1 \in {CreateFile(d, file)}})

\* Lines 363-398 with the status of line 394 assigned at line 373.
FileWrittenAdded(d, pr, file, res, x) ==
    IF x.FileWriteFails
    THEN [db |-> d,
          result |-> [res EXCEPT !.Status = IndexFailed, !.Error = "file"]]
    ELSE IF pr.fileExists
    THEN [db |-> SaveFile(d, file),
          result |-> [res EXCEPT !.Status = IndexAdded, !.FileID = file.ID,
                                 !.FileUUID = file.FileUUID]]
    ELSE The({[db |-> d1,
               result |-> [res EXCEPT !.Status = IndexAdded, !.FileID = Len(d1.files),
                              !.FileUUID = d1.files[Len(d1.files)].FileUUID]]
              : d1 \in {CreateFile(d, file)}})

\* Lines 363-398
FileWritten(d, pr, file, res, x) ==
    IF x.FileWriteFails
    THEN [db |-> d,
          result |-> [res EXCEPT !.Status = IndexFailed, !.Error = "file"]]
    ELSE IF pr.fileExists
    THEN [db |-> SaveFile(d, file),
          result |-> [res EXCEPT !.Status = IndexUpdated, !.FileID = file.ID,
                                 !.FileUUID = file.FileUUID]]
    ELSE The({[db |-> d1,
               result |-> [res EXCEPT !.Status = IndexAdded, !.FileID = Len(d1.files),
                              !.FileUUID = d1.files[Len(d1.files)].FileUUID]]
              : d1 \in {CreateFile(d, file)}})

\* Query.SetDownloadFileID: the download of that name belongs to the file.
SetDownloadFileID(d, fileName, fileId, x) ==
    IF x.TrackerFails \/ fileName = "" THEN d
    ELSE [d EXCEPT !.downloads = {p \in @ : p[1] # fileName} \cup {<<fileName, fileId>>}]

\* Lines 400-408: an error of the download tracker is logged.
Tracked(fw, pr, x) ==
    IF fw.result.Status = IndexFailed THEN fw
    ELSE [fw EXCEPT !.db = SetDownloadFileID(@, pr.downloadedAs, fw.result.FileID, x)]

PersistFile(d, pr, photo, x) ==
    The({Tracked(fw, pr, x)
         : fw \in {FileWritten(d, pr,
                      [pr.file EXCEPT !.PhotoID = photo.ID,
                                      !.PhotoUUID = photo.PhotoUUID],
                      [ZeroResult EXCEPT !.PhotoID = photo.ID,
                                         !.PhotoUUID = photo.PhotoUUID],
                      x)}})

Persist(pr, o, x) ==
    The({IF pp.done
         THEN [db |-> pp.db, events |-> pr.events \o pp.events, result |-> pp.result,
               labels |-> <<>>]
         ELSE The({[db |-> pf.db, events |-> pr.events \o pp.events,
                    result |-> pf.result, labels |-> pr.labels]
                   : pf \in {PersistFile(pp.db, pr, pp.photo, x)}})
         : pp \in {PersistPhoto(pr.db, pr, o, x)}})

MediaFile(d, m, o, originalName, x) ==
    IF m.Nil
    THEN [db |-> d, events |-> <<>>, result |-> Failed("nil"), labels |-> <<>>]
    ELSE The({IF pr.done
              THEN [db |-> pr.db, events |-> pr.events, result |-> pr.result,
                    labels |-> <<>>]
              ELSE Persist(pr, o, x)
              : pr \in {Prepare(d, m, o, originalName, x)}})

(***************************************************************************)
(* Media files the driver hands to the indexer.                            *)
(***************************************************************************)
NoThumb == [Err |-> TRUE, Labels |-> <<>>]
Thumb(labels) == [Err |-> FALSE, Labels |-> labels]

T2021 == Date(2021, 6, 1, 12)
T2019 == Date(2019, 12, 24, 18)
T2020 == Date(2020, 2, 2, 8)

Munich ==
    [ID |-> "s2:munich", PlaceID |-> "de:munich", LocCountry |-> "de",
     CountryName |-> "Germany", City |-> "Munich", Name |-> "Marienplatz",
     Category |-> "square", Keywords |-> <<"munich", "germany">>]

\* A JPEG without metadata, labels or coordinates.
Jpeg(fileName, base, hash, size) ==
    [Nil |-> FALSE, FileName |-> fileName, Path |-> "2021", Base |-> base,
     Hash |-> hash, Size |-> size, Modified |-> size,
     FileType |-> "jpg", IsJpeg |-> TRUE, IsXMP |-> FALSE, IsSidecar |-> FALSE,
     IsVideo |-> FALSE, MetaErr |-> FALSE, Meta |-> ZeroMeta,
     DateCreated |-> T2020, AspectRatio |-> 1,
     Classify |-> [tile_224 |-> Thumb(<<>>), left_224 |-> NoThumb,
                   right_224 |-> NoThumb],
     NSFW |-> [Err |-> FALSE, NSFW |-> FALSE],
     LocationErr |-> TRUE, Location |-> ZeroLocation,
     Camera |-> <<"iPhone SE", "Apple">>, Lens |-> <<"", "">>,
     Exposure |-> "1/60", ColorsErr |-> FALSE, MainColor |-> "green",
     Width |-> 400, Height |-> 300, NonCanonical |-> FALSE,
     XMPErr |-> TRUE, XMP |-> ZeroXMP]

Sidecar(fileName, base, hash, size, xmp) ==
    [Jpeg(fileName, base, hash, size) EXCEPT
        !.FileType = "xmp", !.IsJpeg = FALSE, !.IsXMP = TRUE, !.IsSidecar = TRUE,
        !.MetaErr = TRUE, !.ColorsErr = TRUE, !.Width = 0, !.Height = 0,
        !.XMPErr = FALSE, !.XMP = xmp]

NilMedia == [Jpeg("", "", "", 0) EXCEPT !.Nil = TRUE]

\* a.jpg: coordinates in Munich, taken 2021, classified as a dog.
A1 ==
    [Jpeg("2021/a.jpg", "a", "h1", 1) EXCEPT
        !.Meta = [ZeroMeta EXCEPT !.Lat = 48, !.Lng = 11, !.Altitude = 519,
                                  !.TakenAt = T2021, !.TakenAtLocal = T2021,
                                  !.TimeZone = "Europe/Berlin",
                                  !.Description = "d1", !.Artist = "alice",
                                  !.Keywords = <<"holiday">>],
        !.DateCreated = T2021,
        !.Classify.tile_224 = Thumb(<<Label("dog", 10, 0, "image", <<"animal">>),
                                      Label("square", 30, 0, "image", <<>>)>>),
        !.LocationErr = FALSE, !.Location = Munich]

\* a.jpg with other bytes: no coordinates, other metadata, other labels.
A2 ==
    [Jpeg("2021/a.jpg", "a", "h2", 2) EXCEPT
        !.Meta = [ZeroMeta EXCEPT !.TakenAt = T2019, !.TakenAtLocal = T2019,
                                  !.Title = "Meta Title", !.Description = "d2",
                                  !.Comment = "n2", !.Subject = "s2",
                                  !.CameraOwner = "bob",
                                  !.UniqueID = "0123456789abcdef"],
        !.DateCreated = T2019, !.AspectRatio = 2,
        !.Classify = [tile_224 |-> Thumb(<<Label("cat", 20, 0, "image", <<>>)>>),
                      left_224 |-> Thumb(<<Label("dog", 40, 0, "image", <<>>)>>),
                      right_224 |-> NoThumb],
        !.MainColor = "blue"]

\* The bytes of A1 moved to b.jpg.
B1 == [A1 EXCEPT !.FileName = "2021/b.jpg", !.Base = "b"]

\* a.jpeg: a second JPEG of the photo 2021/a.
A3 ==
    [Jpeg("2021/a.jpeg", "a", "h3", 3) EXCEPT
        !.Classify.tile_224 = Thumb(<<Label("dog", 5, 0, "image", <<>>)>>)]

\* a.xmp: the sidecar of the photo 2021/a.
X1 ==
    Sidecar("2021/a.xmp", "a", "h4", 4,
            [ZeroXMP EXCEPT !.Title = "Beach", !.Copyright = "c4",
                            !.Description = "d4"])

SkipUnchanged == [NoOptions EXCEPT !.SkipUnchanged = TRUE]

UpdateAll ==
    [SkipUnchanged |-> FALSE, UpdateExif |-> TRUE, UpdateCamera |-> TRUE,
     UpdateColors |-> TRUE, UpdateSize |-> TRUE, UpdateKeywords |-> TRUE,
     UpdateLabels |-> TRUE, UpdateTitle |-> TRUE, UpdateLocation |-> TRUE]

\* The files and options of Spec
Media == {A1, A2, B1, A3}
Options == {NoOptions, SkipUnchanged}

(***************************************************************************)
(* Spec: sequential Index calls, interleaved with the purge that marks a   *)
(* file row missing or soft-deletes it.                                    *)
(***************************************************************************)
Init ==
    /\ db = EmptyDb
    /\ events = <<>>
    /\ result = ZeroResult
    /\ op = "init"
    /\ inp = [m |-> NilMedia, o |-> NoOptions, x |-> DefaultEnv]
    /\ calls = 0
    /\ edits = 0
    /\ supplied = <<>>
    /\ prev = [op |-> "init", inp |-> [m |-> NilMedia, o |-> NoOptions, x |-> DefaultEnv],
               result |-> ZeroResult]
    /\ wk = <<>>
    /\ locks = {}

Remember == prev' = [op |-> op, inp |-> inp, result |-> result]

Call(m, o, x) ==
    \E r \in {MediaFile(db, m, o, "", x)} :
        /\ calls < MaxCalls
        /\ db' = r.db
        /\ events' = r.events
        /\ result' = r.result
        /\ supplied' = r.labels
        /\ op' = "index"
        /\ inp' = [m |-> m, o |-> o, x |-> x]
        /\ calls' = calls + 1
        /\ Remember
        /\ UNCHANGED <<edits, wk, locks>>

IndexCall == \E m \in Media, o \in Options : Call(m, o, DefaultEnv)

Edit(d, name) ==
    /\ edits < MaxEdits
    /\ db' = d
    /\ op' = name
    /\ edits' = edits + 1
    /\ Remember
    /\ UNCHANGED <<events, result, inp, calls, supplied, wk, locks>>

PurgeDelete ==
    \E i \in Ids(db.files) :
        /\ ~db.files[i].Deleted
        /\ Edit([db EXCEPT !.files[i].Deleted = TRUE], "purge")

PurgeMissing ==
    \E i \in Ids(db.files) :
        /\ ~db.files[i].FileMissing
        /\ Edit([db EXCEPT !.files[i].FileMissing = TRUE], "purge")

Next == IndexCall \/ PurgeDelete \/ PurgeMissing

Spec == Init /\ [][Next]_vars

(***************************************************************************)
(* SpecEdit: sequential Index calls, interleaved with the edits of a user, *)
(* who sets a field of a photo together with its Modified flag.            *)
(***************************************************************************)
EditMedia == {A1, A2, X1}
EditOptions == {NoOptions, UpdateAll}

Berlin == [ID |-> "de:berlin", LocCountry |-> "de"]

EditIndex == \E m \in EditMedia, o \in EditOptions : Call(m, o, DefaultEnv)

EditTitle ==
    \E i \in Ids(db.photos), title \in {"", "My Dog"} :
        Edit([db EXCEPT !.photos[i].PhotoTitle = title,
                        !.photos[i].ModifiedTitle = TRUE], "title")

EditDate ==
    \E i \in Ids(db.photos), local \in {ZeroTime, T2020} :
        Edit([db EXCEPT !.photos[i].TakenAt = T2020,
                        !.photos[i].TakenAtLocal = local,
                        !.photos[i].TimeZone = "UTC",
                        !.photos[i].PhotoYear = T2020.y,
                        !.photos[i].PhotoMonth = T2020.mo,
                        !.photos[i].ModifiedDate = TRUE], "date")

EditLocation ==
    \E i \in Ids(db.photos) :
        Edit([db EXCEPT !.photos[i].PhotoLat = 52,
                        !.photos[i].PhotoLng = 13,
                        !.photos[i].PhotoAltitude = 34,
                        !.photos[i].LocationID = "s2:berlin",
                        !.photos[i].PlaceID = Berlin.ID,
                        !.photos[i].PhotoCountry = Berlin.LocCountry,
                        !.photos[i].LocationEstimated = FALSE,
                        !.photos[i].ModifiedLocation = TRUE,
                        !.locations = @ \cup {"s2:berlin"},
                        !.places = @ \cup {Berlin}], "location")

EditDescription ==
    \E i \in Ids(db.photos) :
        Edit([db EXCEPT !.photos[i].Description.PhotoNotes = "mine",
                        !.photos[i].Description.PhotoKeywords = <<"user">>,
                        !.photos[i].Description.PhotoCopyright = "me"], "description")

NextEdit == EditIndex \/ EditTitle \/ EditDate \/ EditLocation \/ EditDescription

SpecEdit == Init /\ [][NextEdit]_vars

(***************************************************************************)
(* SpecPar: two workers that index one file each, after some sequential    *)
(* calls.  A worker's call is three steps, between which the other worker  *)
(* may run: Begin reads the catalog and builds the structs (lines 45-327), *)
(* StorePhoto writes the photo and its labels (lines 329-361), StoreFile   *)
(* writes the file row (lines 363-410).  No lock and no transaction spans  *)
(* the steps.                                                              *)
(***************************************************************************)
Workers == {1, 2}
ParMedia == {A1, A3}
ParSetup == {X1, A1}

NoPhotoRef == [ID |-> 0, PhotoUUID |-> ""]

Idle == [pc |-> "idle", m |-> NilMedia, photo |-> NoPhotoRef, result |-> ZeroResult,
         pr |-> [done |-> TRUE]]

InitPar ==
    /\ db = EmptyDb
    /\ events = <<>>
    /\ result = ZeroResult
    /\ op = "init"
    /\ inp = [m |-> NilMedia, o |-> NoOptions, x |-> DefaultEnv]
    /\ calls = 0
    /\ edits = 0
    /\ supplied = <<>>
    /\ prev = [op |-> "init", inp |-> [m |-> NilMedia, o |-> NoOptions, x |-> DefaultEnv],
               result |-> ZeroResult]
    /\ wk = [w \in Workers |-> Idle]
    /\ locks = {}

Step(w, d, worker) ==
    /\ db' = d
    /\ wk' = [wk EXCEPT ![w] = worker]
    /\ op' = "worker"
    /\ UNCHANGED <<events, result, inp, calls, edits, supplied, prev, locks>>

ParCall ==
    /\ \A w \in Workers : wk[w].pc = "idle"
    /\ \E m \in ParSetup : Call(m, NoOptions, DefaultEnv)

Begin(w) ==
    /\ wk[w].pc = "idle"
    /\ \E m \in ParMedia :
         \E pr \in {Prepare(db, m, NoOptions, "", DefaultEnv)} :
            IF pr.done
            THEN Step(w, pr.db, [Idle EXCEPT !.pc = "done", !.m = m,
                                             !.result = pr.result])
            ELSE Step(w, pr.db, [Idle EXCEPT !.pc = "photo", !.m = m,
                                             !.pr = [pr EXCEPT !.db = EmptyDb]])

StorePhoto(w) ==
    /\ wk[w].pc = "photo"
    /\ \E pp \in {PersistPhoto(db, wk[w].pr, NoOptions, DefaultEnv)} :
          IF pp.done
          THEN Step(w, pp.db, [wk[w] EXCEPT !.pc = "done", !.result = pp.result])
          ELSE Step(w, pp.db, [wk[w] EXCEPT !.pc = "file", !.photo = pp.photo])

StoreFile(w) ==
    /\ wk[w].pc = "file"
    /\ \E pf \in {PersistFile(db, wk[w].pr, wk[w].photo, DefaultEnv)} :
          Step(w, pf.db, [wk[w] EXCEPT !.pc = "done", !.result = pf.result])

NextPar ==
    \/ ParCall
    \/ \E w \in Workers : Begin(w)
    \/ \E w \in Workers : StorePhoto(w)
    \/ \E w \in Workers : StoreFile(w)

SpecPar == InitPar /\ [][NextPar]_vars

(***************************************************************************)
(* SpecErr: sequential Index calls of a driver whose store, analyses and   *)
(* download tracker may fail, and which may pass no media file at all.     *)
(***************************************************************************)
PhotoFails == [DefaultEnv EXCEPT !.PhotoWriteFails = TRUE]
FileFails == [DefaultEnv EXCEPT !.FileWriteFails = TRUE]
Broken == [DefaultEnv EXCEPT !.GeoCodingFails = TRUE, !.TrackerFails = TRUE]

\* d.jpg: thumbnails, classifier, NSFW detector, metadata and colors fail.
D1 ==
    [Jpeg("2021/d.jpg", "d", "h5", 5) EXCEPT
        !.MetaErr = TRUE, !.ColorsErr = TRUE,
        !.Classify = [tile_224 |-> NoThumb, left_224 |-> NoThumb, right_224 |-> NoThumb],
        !.NSFW = [Err |-> TRUE, NSFW |-> FALSE],
        !.LocationErr = FALSE, !.Location = Munich]

\* d.xmp: a sidecar that cannot be parsed.
X2 == [Sidecar("2021/d.xmp", "d", "h6", 6, ZeroXMP) EXCEPT !.XMPErr = TRUE]

ErrCalls ==
    {<<NilMedia, NoOptions, DefaultEnv>>, <<A1, SkipUnchanged, DefaultEnv>>,
     <<B1, NoOptions, DefaultEnv>>,
     <<D1, NoOptions, Broken>>, <<X2, NoOptions, Broken>>}
    \cup ({A1, A3, X1} \X {NoOptions} \X {DefaultEnv, PhotoFails, FileFails})

ErrCall == \E c \in ErrCalls : Call(c[1], c[2], c[3])

NextErr == ErrCall

SpecErr == Init /\ [][NextErr]_vars

(***************************************************************************)
(* Properties of sequential indexing (Spec).                               *)
(***************************************************************************)
IsCall == op' = "index" /\ calls' = calls + 1

NamedRows(d, m) == {i \in Ids(d.files) : d.files[i].FileName = m.FileName}
HashRows(d, m) == {i \in Ids(d.files) : d.files[i].FileHash = m.Hash}

\* The file row of m: matched by name, else (not for a sidecar) by hash; 0 if none.
MatchedRow(d, m) ==
    IF NamedRows(d, m) # {} THEN Min(NamedRows(d, m))
    ELSE IF ~m.IsSidecar /\ HashRows(d, m) # {} THEN Min(HashRows(d, m))
    ELSE 0

\* m has a file row of the same size and modified-time whose photo row exists.
Unchanged(d, m) ==
    /\ ~m.Nil
    /\ MatchedRow(d, m) # 0
    /\ d.files[MatchedRow(d, m)].FileSize = m.Size
    /\ d.files[MatchedRow(d, m)].FileModified = m.Modified
    /\ d.files[MatchedRow(d, m)].PhotoID \in Ids(d.photos)

\* C1: an Index call with SkipUnchanged on a file whose row (by name, else by
\* hash) has the same size and modified-time and whose photo row exists
\* returns Skipped, leaves every table of the catalog as it was and publishes
\* the index.indexing event only.
C1_SkipWritesNothing ==
    [][(IsCall /\ inp'.o.SkipUnchanged /\ Unchanged(db, inp'.m))
        => (/\ result'.Status = IndexSkipped
            /\ db' = db
            /\ events' = <<"index.indexing">>)]_vars

\* A skipped call on an unchanged file has returned.
C1_Witness ==
    /\ op = "index"
    /\ inp.o.SkipUnchanged
    /\ Unchanged(db, inp.m)
    /\ result.Status = IndexSkipped
    /\ events = <<"index.indexing">>
    /\ Len(db.photos) > 0

\* Two consecutive Index calls on the same file with SkipUnchanged.
IsRepeat == op = "index" /\ IsCall /\ inp' = inp /\ inp.o.SkipUnchanged /\ ~inp.m.Nil

\* C2 as stated: two consecutive Index calls on the same file with
\* SkipUnchanged yield Updated, then Skipped, and the second call leaves
\* the catalog as the first left it.
C2_UpdatedThenSkipped ==
    [][IsRepeat => (/\ result.Status = IndexUpdated
                    /\ result'.Status = IndexSkipped
                    /\ db' = db)]_vars

\* C2: two consecutive Index calls on the same file with SkipUnchanged, the
\* first of which does not fail, yield Added, Updated or Skipped for the
\* first and Skipped for the second, and the second call leaves the catalog
\* as the first left it.
C2_Idempotent ==
    [][(IsRepeat /\ result.Status # IndexFailed)
        => (/\ result.Status \in {IndexAdded, IndexUpdated, IndexSkipped}
            /\ result'.Status = IndexSkipped
            /\ db' = db)]_vars

\* The second of two such calls has returned, the first having added the file.
C2_Witness ==
    /\ op = "index" /\ prev.op = "index"
    /\ prev.inp = inp
    /\ inp.o.SkipUnchanged
    /\ prev.result.Status = IndexAdded
    /\ result.Status = IndexSkipped

\* m is a file that moved: no row has its name, a row has its hash.
Moved(d, m) ==
    ~m.Nil /\ ~m.IsSidecar /\ NamedRows(d, m) = {} /\ HashRows(d, m) # {}

\* C3: an Index call on a file that is no sidecar, whose name has no file row
\* and whose hash is the FileHash of a row, adds no file row and no photo
\* row, returns the PhotoID and PhotoUUID of the photo of that row, and
\* leaves that row with the new name.
C3_DedupByHash ==
    [][(IsCall /\ Moved(db, inp'.m))
        => LET row == Min(HashRows(db, inp'.m))
               owner == db.files[row].PhotoID
           IN  /\ Len(db'.files) = Len(db.files)
               /\ Len(db'.photos) = Len(db.photos)
               /\ result'.PhotoID = owner
               /\ result'.PhotoUUID = db.photos[owner].PhotoUUID
               /\ db'.files[row].FileName = inp'.m.FileName]_vars

Jpegs(d, photoId) ==
    {i \in Ids(d.files) : d.files[i].PhotoID = photoId /\ d.files[i].FileType = "jpg"}

Primaries(d, photoId) ==
    {i \in Ids(d.files) : d.files[i].PhotoID = photoId /\ d.files[i].FilePrimary}

\* C4: in every state of sequential indexing and purging, each photo with a
\* JPEG file row has exactly one file row with FilePrimary set, and each
\* file row with FilePrimary set is of type jpg.
C4_PrimaryUnique ==
    /\ \A p \in Ids(db.photos) :
          Jpegs(db, p) # {} => Cardinality(Primaries(db, p)) = 1
    /\ \A i \in Ids(db.files) : db.files[i].FilePrimary => db.files[i].FileType = "jpg"

SameEdge(a, b) == a.PhotoID = b.PhotoID /\ a.LabelID = b.LabelID

\* The uncertainties that the labels ls, added to photo photoId, carry for edge pl.
SuppliedFor(d, photoId, ls, pl) ==
    {ls[i].Uncertainty :
        i \in {j \in 1..Len(ls) :
                 /\ pl.PhotoID = photoId
                 /\ d.labels[pl.LabelID].LabelSlug = Slug(Title(ls[j].Name))}}

\* C10: across every step, no edge between a photo and a label disappears,
\* each pair has one edge, the uncertainty of each edge is the least of the
\* uncertainty stored before and the uncertainties that the call supplied
\* for the pair, and the source of an edge differs from the one stored
\* before only if the uncertainty is strictly lower.
C10_ConfidenceMonotone ==
    [][/\ \A q \in db.photoLabels : \E pl \in db'.photoLabels : SameEdge(pl, q)
       /\ \A pl \in db'.photoLabels :
            LET old == {q \in db.photoLabels : SameEdge(pl, q)}
                sup == IF op' = "index"
                       THEN SuppliedFor(db', result'.PhotoID, supplied', pl)
                       ELSE {}
                seen == {q.LabelUncertainty : q \in old} \cup sup
            IN  /\ seen # {}
                /\ pl.LabelUncertainty = Min(seen)
                /\ \A q \in old : pl.LabelUncertainty <= q.LabelUncertainty
                /\ \A q \in old : q.LabelSource # pl.LabelSource
                                    => pl.LabelUncertainty < q.LabelUncertainty
                /\ \A q \in db'.photoLabels : SameEdge(pl, q) => q = pl]_vars

\* A call has supplied, for one pair, an uncertainty above the one now stored
\* and from another source, and a later call has lowered a stored uncertainty.
C10_Witness ==
    /\ op = "index"
    /\ \E pl \in db.photoLabels :
         \E i \in 1..Len(supplied) :
            /\ pl.PhotoID = result.PhotoID
            /\ db.labels[pl.LabelID].LabelSlug = Slug(Title(supplied[i].Name))
            /\ supplied[i].Uncertainty > pl.LabelUncertainty
            /\ supplied[i].Source # pl.LabelSource
    /\ \E pl \in db.photoLabels :
         /\ db.labels[pl.LabelID].LabelSlug = "dog"
         /\ pl.LabelUncertainty = 10
    /\ prev.op = "index" /\ prev.inp.m = A2 /\ inp.m = A1

C7_StickyDate ==
    [][IsCall => \A i \in Ids(db.photos) :
                    db.photos[i].ModifiedDate
                        => /\ db'.photos[i].TakenAt = db.photos[i].TakenAt
                           /\ db'.photos[i].TakenAtLocal = db.photos[i].TakenAtLocal
                           /\ db'.photos[i].TimeZone = db.photos[i].TimeZone]_vars

\* C8: an Index call leaves the coordinates, the altitude, the place, the
\* location and the country of every stored photo with ModifiedLocation set
\* as they were.
C8_StickyLocation ==
    [][IsCall => \A i \in Ids(db.photos) :
                    db.photos[i].ModifiedLocation
                        => /\ db'.photos[i].PhotoLat = db.photos[i].PhotoLat
                           /\ db'.photos[i].PhotoLng = db.photos[i].PhotoLng
                           /\ db'.photos[i].PhotoAltitude = db.photos[i].PhotoAltitude
                           /\ db'.photos[i].PlaceID = db.photos[i].PlaceID
                           /\ db'.photos[i].LocationID = db.photos[i].LocationID
                           /\ db'.photos[i].PhotoCountry = db.photos[i].PhotoCountry]_vars

\* m is the primary file of a stored photo, and indexing it with o merges
\* its metadata.
MergesInto(d, m, o) ==
    /\ ~m.Nil /\ ~m.MetaErr
    /\ NamedRows(d, m) # {}
    /\ d.files[MatchedRow(d, m)].FilePrimary
    /\ d.files[MatchedRow(d, m)].PhotoID \in Ids(d.photos)
    /\ (o.UpdateExif \/ d.files[MatchedRow(d, m)].FileSize # m.Size
                     \/ d.files[MatchedRow(d, m)].FileModified # m.Modified)

DescriptionFields ==
    {"PhotoDescription", "PhotoNotes", "PhotoSubject", "PhotoArtist", "PhotoCopyright"}

\* C9: an Index call on the primary file of a stored photo that merges the
\* metadata leaves each field of the stored Description that is not empty
\* (description, notes, subject, keywords, artist, copyright) as it was.
C9_StickyDescription ==
    [][(IsCall /\ MergesInto(db, inp'.m, inp'.o))
        => LET i == db.files[MatchedRow(db, inp'.m)].PhotoID
               old == db.photos[i].Description
               new == db'.photos[i].Description
           IN  /\ \A f \in DescriptionFields : old[f] # "" => new[f] = old[f]
               /\ old.PhotoKeywords # <<>>
                    => new.PhotoKeywords = old.PhotoKeywords]_vars

(***************************************************************************)
(* Properties of parallel indexing (SpecPar).                              *)
(***************************************************************************)
\* Both workers have returned from indexing two JPEG files of one photo.
BothReturned ==
    /\ \A w \in Workers : wk[w].pc = "done" /\ wk[w].m.IsJpeg
    /\ wk[1].m.FileName # wk[2].m.FileName
    /\ \A w \in Workers : wk[w].result.Status \in {IndexAdded, IndexUpdated}
    /\ wk[1].result.PhotoID = wk[2].result.PhotoID

\* C5: once two workers that index two JPEG files of one photo in parallel
\* have both returned, the photo has at most one file row with FilePrimary
\* set.
C5_ParallelPrimary ==
    BothReturned => Cardinality(Primaries(db, wk[1].result.PhotoID)) <= 1

(***************************************************************************)
(* Properties of the identifiers and of the date columns.                  *)
(***************************************************************************)
\* C11: an Index call on a file that has a file row leaves the FileUUID of
\* that row and the PhotoUUID of its photo as they were.
C11_UUIDStable ==
    [][(IsCall /\ ~inp'.m.Nil /\ MatchedRow(db, inp'.m) # 0)
        => LET row == MatchedRow(db, inp'.m)
               owner == db.files[row].PhotoID
           IN  /\ db'.files[row].FileUUID = db.files[row].FileUUID
               /\ owner \in Ids(db.photos)
                    => db'.photos[owner].PhotoUUID = db.photos[owner].PhotoUUID]_vars

\* C12: every photo row that Index wrote has the year and the month of its
\* TakenAt in PhotoYear and PhotoMonth.
C12_YearMonth ==
    \A i \in Ids(db.photos) :
        /\ db.photos[i].PhotoYear = db.photos[i].TakenAt.y
        /\ db.photos[i].PhotoMonth = db.photos[i].TakenAt.mo

\* The sidecar created the photo without a date, and the JPEG indexed next
\* gave it the date of its metadata.
C12_Witness ==
    /\ op = "index" /\ prev.op = "index"
    /\ prev.inp.m = X1 /\ prev.result.Status = IndexAdded
    /\ inp.m = A1 /\ result.Status = IndexAdded
    /\ result.PhotoID = prev.result.PhotoID
    /\ db.photos[result.PhotoID].TakenAt = T2021
    /\ db.photos[result.PhotoID].PhotoYear = 2021
    /\ db.photos[result.PhotoID].PhotoMonth = 6

(***************************************************************************)
(* Properties of the events and of the results (SpecErr).                  *)
(***************************************************************************)
CreationEvents ==
    {"count.places", "count.countries", "count.photos", "photos.created",
     "labels.created", "count.labels"}

\* C13: a call without a media file has published nothing when it returns;
\* every other call has published index.indexing first and after it
\* creation and count events only.
C13_EventOrder ==
    op = "index"
        => IF inp.m.Nil
           THEN events = <<>> /\ result.Status = IndexFailed
           ELSE /\ Len(events) >= 1
                /\ events[1] = "index.indexing"
                /\ \A i \in 2..Len(events) : events[i] \in CreationEvents

\* Right after a call without a media file, a call has added a file and
\* published every kind of creation and count event.
C13_Witness ==
    /\ op = "index" /\ prev.op = "index" /\ prev.inp.m.Nil
    /\ result.Status = IndexAdded
    /\ {events[i] : i \in 2..Len(events)} = CreationEvents

\* The file row of the media file of a call, 0 if it has none.
RowOf(d, m) == IF m.Nil THEN 0 ELSE MatchedRow(d, m)

\* C14: a call returns Added exactly if the catalog has one file row more
\* after it, the row of the file, which had none; it returns Updated only if
\* it saved the row that the file had (by name or by hash), and always if a
\* row differs after the call; a call that returns Skipped or Failed leaves
\* the file rows as they were; no call writes another file row.
C14_AddedUpdated ==
    [][IsCall
        => LET row == RowOf(db, inp'.m)
               last == Len(db'.files)
           IN  /\ result'.Status = IndexAdded <=> last = Len(db.files) + 1
               /\ last \in {Len(db.files), Len(db.files) + 1}
               /\ result'.Status = IndexAdded
                    => /\ row = 0
                       /\ result'.FileID = last
                       /\ db'.files[last].ID = last
                       /\ db'.files[last].FileName = inp'.m.FileName
               /\ result'.Status = IndexUpdated
                    => /\ row # 0
                       /\ result'.FileID = row
                       /\ db'.files[row].FileName = inp'.m.FileName
                       /\ db'.files[row].FileHash = inp'.m.Hash
               /\ result'.Status \in {IndexSkipped, IndexFailed}
                    => db'.files = db.files
               /\ (last = Len(db.files) /\ db'.files # db.files)
                    => result'.Status = IndexUpdated
               /\ \A i \in Ids(db.files) \ {row} : db'.files[i] = db.files[i]]_vars

\* A call has updated the row that it found by the hash of the moved file,
\* after a call that added a row and a call that failed to write one.
C14_Witness ==
    /\ op = "index" /\ inp.m = B1
    /\ result.Status = IndexUpdated
    /\ db.files[result.FileID].FileName = B1.FileName
    /\ prev.result.Status = IndexFailed /\ prev.result.Error = "file"
    /\ Len(db.files) = 1

\* The call returns at line 110, before any write is tried.
SkipsBefore(d, m, o) == o.SkipUnchanged /\ Unchanged(d, m)

\* The call tries a write of the store that fails.
WriteFails(d, m, o, x) ==
    ~m.Nil /\ ~SkipsBefore(d, m, o) /\ (x.PhotoWriteFails \/ x.FileWriteFails)

\* C15: a call returns Failed exactly if it returns an error, and exactly if
\* it has no media file or a write of the photo or of the file fails; every
\* other call that is not skipped, whatever fails in the classifier, the
\* NSFW detector, the thumbnails, the colors, the metadata, the sidecar, the
\* geocoder or the download tracker, writes the photo row and the file row
\* and returns Added or Updated.
C15_FailedIff ==
    [][IsCall
        => /\ result'.Status = IndexFailed <=> result'.Error # ""
           /\ result'.Status = IndexFailed
                <=> (inp'.m.Nil \/ WriteFails(db, inp'.m, inp'.o, inp'.x))
           /\ (~inp'.m.Nil /\ ~SkipsBefore(db, inp'.m, inp'.o)
               /\ ~WriteFails(db, inp'.m, inp'.o, inp'.x))
                => /\ result'.Status \in {IndexAdded, IndexUpdated}
                   /\ result'.FileID \in Ids(db'.files)
                   /\ result'.PhotoID \in Ids(db'.photos)
                   /\ db'.files[result'.FileID].FileName = inp'.m.FileName
                   /\ db'.files[result'.FileID].PhotoID = result'.PhotoID
                   /\ db'.photos[result'.PhotoID].PhotoName = inp'.m.Base]_vars

\* A JPEG whose thumbnails, labels, NSFW check, metadata, colors, geocoding
\* and download tracking all failed has been added with its photo.
C15_Witness ==
    /\ op = "index" /\ inp.m = D1 /\ inp.x = Broken
    /\ result.Status = IndexAdded
    /\ db.files[result.FileID].FileName = D1.FileName
    /\ db.files[result.FileID].FileMainColor = ""
    /\ db.photos[result.PhotoID].PlaceID = UnknownPlace.ID
    /\ \A p \in db.downloads : p[1] # D1.FileName

\* The photo rows with the path and the name of m.
PhotosOf(d, m) ==
    {i \in Ids(d.photos) : d.photos[i].PhotoPath = m.Path /\ d.photos[i].PhotoName = m.Base}

\* The last call wrote the photo of a file without a row and failed to write
\* the file row.
FileWriteFailed ==
    /\ op = "index" /\ ~inp.m.Nil
    /\ result.Status = IndexFailed /\ result.Error = "file"
    /\ RowOf(db, inp.m) = 0

C17_Success ==
    op = "index"
        => /\ result.Status \in {IndexAdded, IndexUpdated, IndexSkipped, IndexFailed}
           /\ Success(result) <=> (result.Error = "" /\ result.FileID > 0)
           /\ Success(result) <=> result.Status \in {IndexAdded, IndexUpdated}
           /\ result.Status \in {IndexAdded, IndexUpdated}
                => /\ result.FileID \in Ids(db.files)
                   /\ result.PhotoID \in Ids(db.photos)
                   /\ db.files[result.FileID].FileName = inp.m.FileName
                   /\ db.files[result.FileID].PhotoID = result.PhotoID
                   /\ db.files[result.FileID].FileUUID = result.FileUUID
                   /\ db.photos[result.PhotoID].PhotoUUID = result.PhotoUUID

\* A skipped call has returned after an added one: no error, no FileID, no
\* success.
C17_Witness ==
    /\ op = "index" /\ result.Status = IndexSkipped
    /\ result.Error = "" /\ result.FileID = 0 /\ ~Success(result)
    /\ prev.op = "index" /\ prev.result.Status = IndexAdded
    /\ Success(prev.result) /\ prev.result.FileID = 1 /\ prev.result.PhotoID = 1

(***************************************************************************)
(* SpecLoc: sequential Index calls, with and without UpdateLocation, for   *)
(* a JPEG with coordinates and two JPEGs of other photos without.          *)
(***************************************************************************)
UpdateLocation == [NoOptions EXCEPT !.UpdateLocation = TRUE]

\* n.jpg: no coordinates, taken one day after A1.
N1 ==
    [Jpeg("2021/n.jpg", "n", "h7", 7) EXCEPT
        !.Meta = [ZeroMeta EXCEPT !.TakenAt = Date(2021, 6, 2, 12),
                                  !.TakenAtLocal = Date(2021, 6, 2, 12)],
        !.DateCreated = Date(2021, 6, 2, 12)]

\* o.jpg: no coordinates, taken in 2019.
N2 ==
    [Jpeg("2021/o.jpg", "o", "h8", 8) EXCEPT
        !.Meta = [ZeroMeta EXCEPT !.TakenAt = T2019, !.TakenAtLocal = T2019],
        !.DateCreated = T2019]

LocMedia == {A1, N1, N2}
LocOptions == {NoOptions, UpdateLocation}

LocCall == \E m \in LocMedia, o \in LocOptions : Call(m, o, DefaultEnv)

NextLoc == LocCall

SpecLoc == Init /\ [][NextLoc]_vars

\* The photo of d, not the photo of m, that alone is closest in days to
\* takenAt, if it has a known place; 0 if there is none.
ClosestPlaced(d, m, takenAt) ==
    LET others == Ids(d.photos) \ PhotosOf(d, m)
        dist(i) == Abs(DayNo(d.photos[i].TakenAt) - DayNo(takenAt))
        near == {i \in others : /\ HasPlace(d.photos[i])
                                /\ \A j \in others \ {i} : dist(i) < dist(j)}
    IN  IF near = {} THEN 0 ELSE Min(near)

\* C18: a call with UpdateLocation for a JPEG without coordinates, whose
\* photo has no location, leaves that photo with LocationEstimated set and
\* with the place and the country of the other photo closest in days, if
\* that photo has a known place; also if the call created the photo.
C18_Estimated ==
    [][(IsCall /\ inp'.o.UpdateLocation /\ inp'.m.IsJpeg /\ inp'.m.LocationErr
        /\ result'.Status \in {IndexAdded, IndexUpdated}
        /\ NoLocation(db'.photos[result'.PhotoID])
        /\ ClosestPlaced(db, inp'.m, db'.photos[result'.PhotoID].TakenAt) # 0)
        => \E near \in {ClosestPlaced(db, inp'.m, db'.photos[result'.PhotoID].TakenAt)} :
             /\ db'.photos[result'.PhotoID].LocationEstimated
             /\ db'.photos[result'.PhotoID].PlaceID = db.photos[near].PlaceID
             /\ db'.photos[result'.PhotoID].PhotoCountry
                  = PlaceOf(db, db.photos[near].PlaceID).LocCountry]_vars

(***************************************************************************)
(* SpecLock: two workers that index one file each on an empty catalog,     *)
(* with the cell lock of indexLocation.  A worker's call is up to six      *)
(* steps: Enter looks the file up and elects the primary (lines 45-132),   *)
(* Acquire takes the lock of the file's cell (line 541), LookUp runs the   *)
(* primary branch with Location.Find (lines 134-212 and 544-614; the       *)
(* classification and the merges before line 208 take no lock and run      *)
(* with this step), Return leaves indexLocation, where the deferred        *)
(* Unlock of line 542 runs, StorePhoto and StoreFile write the rows.  A    *)
(* file without a location, or one that is not primary, goes from Enter    *)
(* to StorePhoto.                                                          *)
(***************************************************************************)
LockFree(held, cell) == \A p \in held : p[1] # cell
Lock(held, cell, w) == held \cup {<<cell, w>>}
Unlock(held, cell, w) == held \ {<<cell, w>>}

\* Line 542 as an Unlock that runs after a lookup without error only.
DeferredOnSuccess(held, cell, w, err) == IF err THEN held ELSE Unlock(held, cell, w)

\* Line 542: the deferred Unlock runs when indexLocation returns, whatever
\* Find returned.
Deferred(held, cell, w, err) == Unlock(held, cell, w)

\* Lines 134, 208 and 538-540: indexLocation is called and the media file
\* has a location.
TakesLock(c, m, o) ==
    /\ c.file.FilePrimary
    /\ (c.fileChanged \/ o.UpdateKeywords \/ o.UpdateLocation \/ o.UpdateTitle)
    /\ ~m.LocationErr

GeoFails == [DefaultEnv EXCEPT !.GeoCodingFails = TRUE]

\* A1 and D1 lie in the same cell; N1 has no location; A3 is not primary
\* once A1 is stored.
LockCalls == {<<A1, DefaultEnv>>, <<D1, GeoFails>>, <<N1, DefaultEnv>>, <<A3, DefaultEnv>>}

LockIdle ==
    [pc |-> "idle", m |-> NilMedia, x |-> DefaultEnv, c |-> Found(EmptyDb, NilMedia, 0, 0),
     err |-> FALSE, photo |-> NoPhotoRef, result |-> ZeroResult, pr |-> [done |-> TRUE]]

Cell(worker) == worker.m.Location.ID

InitLock ==
    /\ db = EmptyDb
    /\ events = <<>>
    /\ result = ZeroResult
    /\ op = "init"
    /\ inp = [m |-> NilMedia, o |-> NoOptions, x |-> DefaultEnv]
    /\ calls = 0
    /\ edits = 0
    /\ supplied = <<>>
    /\ prev = [op |-> "init", inp |-> [m |-> NilMedia, o |-> NoOptions, x |-> DefaultEnv],
               result |-> ZeroResult]
    /\ wk = [w \in Workers |-> LockIdle]
    /\ locks = {}

LockStep(w, d, worker, held) ==
    /\ db' = d
    /\ wk' = [wk EXCEPT ![w] = worker]
    /\ locks' = held
    /\ op' = "worker"
    /\ UNCHANGED <<events, result, inp, calls, edits, supplied, prev>>

Enter(w) ==
    /\ wk[w].pc = "idle"
    /\ \E call \in LockCalls :
         \E c \in {Elected(db, Lookup(db, call[1]), call[1])} :
            IF TakesLock(c, call[1], NoOptions)
            THEN LockStep(w, db, [LockIdle EXCEPT !.pc = "lock", !.m = call[1],
                                                  !.x = call[2], !.c = c], locks)
            ELSE \E pr \in {Analyse(db, c, call[1], NoOptions, "", call[2])} :
                    LockStep(w, pr.db, [LockIdle EXCEPT !.pc = "photo", !.m = call[1],
                                                        !.x = call[2],
                                                        !.pr = [pr EXCEPT !.db = EmptyDb]],
                             locks)

Acquire(w) ==
    /\ wk[w].pc = "lock"
    /\ LockFree(locks, Cell(wk[w]))
    /\ LockStep(w, db, [wk[w] EXCEPT !.pc = "find"], Lock(locks, Cell(wk[w]), w))

LookUp(w) ==
    /\ wk[w].pc = "find"
    /\ \E worker \in {wk[w]}, d \in {db} :
         \E pr \in {Analyse(d, worker.c, worker.m, NoOptions, "", worker.x)} :
            LockStep(w, pr.db,
                     [worker EXCEPT !.pc = "return",
                                    !.err = Find(d, worker.m.Location, worker.x).Err,
                                    !.pr = [pr EXCEPT !.db = EmptyDb]],
                     locks)

Return(w) ==
    /\ wk[w].pc = "return"
    /\ LockStep(w, db, [wk[w] EXCEPT !.pc = "photo"],
                Deferred(locks, Cell(wk[w]), w, wk[w].err))

NextLock ==
    \/ \E w \in Workers : Enter(w)
    \/ \E w \in Workers : Acquire(w)
    \/ \E w \in Workers : LookUp(w)
    \/ \E w \in Workers : Return(w)
    \/ \E w \in Workers : StorePhoto(w)
    \/ \E w \in Workers : StoreFile(w)

SpecLock == InitLock /\ [][NextLock]_vars

\* The worker is inside the location lookup of its file's cell.
Inside(w) == wk[w].pc \in {"find", "return"}

\* C19: at most one worker at a time is inside the location lookup of a cell
\* and a cell's lock has one holder; a lock is held only by a worker inside
\* the lookup of that cell, never for a file without a location; a worker
\* that left indexLocation, after a lookup that succeeded or one that
\* failed, or that returned from Index, holds no lock; a worker waiting for
\* a cell lock waits for a worker inside the lookup; and the workers never
\* deadlock: while a call has not returned, and every such call is at line
\* 541 or about to leave indexLocation, a lock can be taken or released.
C19_CellLock ==
    /\ \A v, w \in Workers : (v # w /\ Inside(v) /\ Inside(w)) => Cell(wk[v]) # Cell(wk[w])
    /\ \A p, q \in locks : p[1] = q[1] => p = q
    /\ \A p \in locks : /\ Inside(p[2])
                        /\ ~wk[p[2]].m.LocationErr
                        /\ p[1] = Cell(wk[p[2]])
    /\ \A w \in Workers : Inside(w) => <<Cell(wk[w]), w>> \in locks
    /\ \A w \in Workers : wk[w].pc = "lock"
            => \/ LockFree(locks, Cell(wk[w]))
               \/ \E v \in Workers \ {w} : <<Cell(wk[w]), v>> \in locks /\ Inside(v)
    /\ (\A w \in Workers : wk[w].pc = "done") => locks = {}
    /\ \/ \A w \in Workers : wk[w].pc = "done"
       \/ \E w \in Workers : wk[w].pc \in {"idle", "find", "photo", "file"}
       \/ ENABLED (\E w \in Workers : Acquire(w) \/ Return(w))

\* One worker has returned from a call whose lookup failed, the other from a
\* call for the same cell whose lookup succeeded, and no lock is held.
C19_Witness ==
    /\ \A w \in Workers : wk[w].pc = "done"
    /\ \E v, w \in Workers :
          /\ v # w /\ Cell(wk[v]) = Cell(wk[w]) /\ Cell(wk[v]) # ""
          /\ wk[v].err /\ ~wk[w].err
          /\ wk[v].m = D1 /\ wk[w].m = A1
    /\ locks = {}

\* The ids of the rows of a table.
RowIds(rows) == {rows[i].ID : i \in DOMAIN rows}

\* C20: no Index call, whether it returns Added, Updated, Skipped or Failed,
\* removes a photo row or a file row: every id of the catalog before the call
\* is an id after it, and every row has the id it had.
C20_NoRemoval ==
    [][IsCall
        => /\ RowIds(db.photos) \subseteq RowIds(db'.photos)
           /\ RowIds(db.files) \subseteq RowIds(db'.files)
           /\ Len(db'.photos) >= Len(db.photos)
           /\ Len(db'.files) >= Len(db.files)
           /\ \A i \in DOMAIN db.photos : db'.photos[i].ID = db.photos[i].ID
           /\ \A i \in DOMAIN db.files : db'.files[i].ID = db.files[i].ID
           /\ Cardinality(RowIds(db'.photos)) = Len(db'.photos)
           /\ Cardinality(RowIds(db'.files)) = Len(db'.files)]_vars

\* A call has failed after a call that updated a file row, and the catalog
\* has its photo and file rows.
C20_Witness ==
    /\ op = "index" /\ result.Status = IndexFailed /\ ~inp.m.Nil
    /\ prev.op = "index" /\ prev.result.Status = IndexUpdated
    /\ prev.result.FileID \in RowIds(db.files)
    /\ prev.result.PhotoID \in RowIds(db.photos)

(***************************************************************************)
(* Properties of re-indexing purged files (Spec).                          *)
(***************************************************************************)
\* C21: an Index call, not skipped, for a file whose row by name was
\* soft-deleted or marked missing reuses that row, so that no second row has
\* the file's name, and leaves it not missing and not deleted.
C21_Revived ==
    [][(IsCall /\ result'.Status \in {IndexAdded, IndexUpdated}
        /\ NamedRows(db, inp'.m) # {}
        /\ \E i \in NamedRows(db, inp'.m) : db.files[i].Deleted \/ db.files[i].FileMissing)
        => /\ NamedRows(db', inp'.m) = NamedRows(db, inp'.m)
           /\ result'.FileID \in NamedRows(db, inp'.m)
           /\ \A i \in NamedRows(db', inp'.m) :
                ~db'.files[i].FileMissing /\ ~db'.files[i].Deleted]_vars

(***************************************************************************)
(* SpecSide: sequential Index calls for a JPEG, its sidecar, and a sidecar *)
(* of another photo that has the bytes of the JPEG.                        *)
(***************************************************************************)
\* c.xmp: a sidecar of the photo 2021/c with the hash of A1.
X3 ==
    Sidecar("2021/c.xmp", "c", "h1", 9,
            [ZeroXMP EXCEPT !.Title = "Harbour", !.Artist = "carol"])

SideMedia == {A1, X1, X3}
SideOptions == {NoOptions, UpdateAll}

SideCall == \E m \in SideMedia, o \in SideOptions : Call(m, o, DefaultEnv)

NextSide == SideCall

SpecSide == Init /\ [][NextSide]_vars

\* C22: an Index call for a parsable XMP sidecar with a title, for which the
\* catalog has neither a file row by name nor a photo row by path and name,
\* returns Added; it changes no file row and no photo row of the catalog
\* (the file is not looked up by hash), creates a photo titled with the XMP
\* title that has no labels, place, country, date or keywords, creates the
\* file row with FileSidecar set and FilePrimary unset, and publishes no
\* event but those of the call and of the new photo.
C22_Sidecar ==
    [][(IsCall /\ inp'.m.IsSidecar /\ inp'.m.IsXMP /\ ~inp'.m.XMPErr
        /\ inp'.m.XMP.Title # ""
        /\ NamedRows(db, inp'.m) = {} /\ PhotosOf(db, inp'.m) = {})
        => /\ result'.Status = IndexAdded
           /\ Len(db'.files) = Len(db.files) + 1
           /\ Len(db'.photos) = Len(db.photos) + 1
           /\ SubSeq(db'.files, 1, Len(db.files)) = db.files
           /\ SubSeq(db'.photos, 1, Len(db.photos)) = db.photos
           /\ result'.FileID = Len(db'.files) /\ result'.PhotoID = Len(db'.photos)
           /\ \E file \in {db'.files[result'.FileID]}, photo \in {db'.photos[result'.PhotoID]} :
                /\ file.FileSidecar /\ ~file.FilePrimary
                /\ file.FileName = inp'.m.FileName /\ file.PhotoID = photo.ID
                /\ file.FileMainColor = ""
                /\ photo.PhotoTitle = inp'.m.XMP.Title
                /\ photo.PhotoPath = inp'.m.Path /\ photo.PhotoName = inp'.m.Base
                /\ photo.PlaceID = "" /\ photo.PhotoCountry = "" /\ photo.LocationID = ""
                /\ IsZero(photo.TakenAt)
                /\ photo.CameraID = 0
                /\ photo.Description.PhotoKeywords = <<>>
           /\ supplied' = <<>>
           /\ db'.photoLabels = db.photoLabels /\ db'.labels = db.labels
           /\ db'.locations = db.locations /\ db'.places = db.places
           /\ db'.cameras = db.cameras
           /\ events' = <<"index.indexing", "count.photos", "photos.created">>]_vars

\* The sidecar with the hash of a.jpg has been added next to a.jpg's row.
C22_Witness ==
    /\ op = "index" /\ inp.m = X3 /\ result.Status = IndexAdded
    /\ Len(db.files) = 2 /\ Len(db.photos) = 2
    /\ db.files[1].FileHash = db.files[2].FileHash
    /\ db.files[2].FileSidecar /\ ~db.files[2].FilePrimary
    /\ db.photos[2].PhotoTitle = "Harbour"

(***************************************************************************)
(* Properties of parallel indexing of one new photo (SpecPar).             *)
(***************************************************************************)
\* Both workers have returned from indexing two files of one path and base
\* name, started on the empty catalog.
SiblingsReturned ==
    /\ calls = 0
    /\ \A w \in Workers : wk[w].pc = "done"
    /\ \A w \in Workers : wk[w].result.Status \in {IndexAdded, IndexUpdated}
    /\ wk[1].m.FileName # wk[2].m.FileName
    /\ wk[1].m.Path = wk[2].m.Path /\ wk[1].m.Base = wk[2].m.Base

\* C23: once two workers that index two files of one photo, which the catalog
\* did not hold, have both returned, the catalog has one photo row of that
\* path and name and both file rows belong to it.
C23_OnePhoto ==
    SiblingsReturned
        => /\ Cardinality(PhotosOf(db, wk[1].m)) = 1
           /\ wk[1].result.PhotoID = wk[2].result.PhotoID
           /\ \A w \in Workers : db.files[wk[w].result.FileID].PhotoID \in PhotosOf(db, wk[1].m)

(***************************************************************************)
(* SpecImport: the handler of POST /api/v1/import (import.go, lines 22-85) *)
(* run by two requests at a time.  A request is rejected in one step       *)
(* (lines 24-42) or passes the three tests and calls imp.Start (line 64),  *)
(* which returns in a step of its own; the rest of the handler (lines      *)
(* 66-82) publishes the events and answers.  The log messages of           *)
(* event.Info and event.Success are left out.  events holds pairs of a     *)
(* topic and the request that published it.                                *)
(***************************************************************************)
StatusOK == 200
StatusBadRequest == 400
StatusUnauthorized == 401
StatusForbidden == 403

Request(readOnly, unauthorized, bodyErr, move) ==
    [ReadOnly |-> readOnly, Unauthorized |-> unauthorized, BodyErr |-> bodyErr,
     Move |-> move]

\* Every outcome of the three tests: for a request of a read-only instance,
\* of one without a session, with a body that does not parse, and two that
\* pass; each test is also failed together with the ones that follow it.
Requests ==
    {Request(TRUE, FALSE, FALSE, FALSE), Request(TRUE, TRUE, TRUE, FALSE),
     Request(FALSE, TRUE, FALSE, FALSE), Request(FALSE, TRUE, TRUE, TRUE),
     Request(FALSE, FALSE, TRUE, FALSE),
     Request(FALSE, FALSE, FALSE, FALSE), Request(FALSE, FALSE, FALSE, TRUE)}

Waiting ==
    [pc |-> "idle", req |-> Request(FALSE, FALSE, FALSE, FALSE), status |-> 0,
     started |-> FALSE, returned |-> FALSE]

InitImport ==
    /\ db = EmptyDb
    /\ events = <<>>
    /\ result = ZeroResult
    /\ op = "init"
    /\ inp = [m |-> NilMedia, o |-> NoOptions, x |-> DefaultEnv]
    /\ calls = 0
    /\ edits = 0
    /\ supplied = <<>>
    /\ prev = [op |-> "init", inp |-> [m |-> NilMedia, o |-> NoOptions, x |-> DefaultEnv],
               result |-> ZeroResult]
    /\ wk = [w \in Workers |-> Waiting]
    /\ locks = {}

\* Lines 76-78 with the first two topics exchanged.
CompletedSwapped(published, w) ==
    published \o <<<<"index.completed", w>>, <<"import.completed", w>>,
                   <<"config.updated", w>>>>

\* Lines 76-78
Completed(published, w) ==
    published \o <<<<"import.completed", w>>, <<"index.completed", w>>,
                   <<"config.updated", w>>>>

Handle(w, worker, published) ==
    /\ wk' = [wk EXCEPT ![w] = worker]
    /\ events' = published
    /\ op' = "import"
    /\ UNCHANGED <<db, result, inp, calls, edits, supplied, prev, locks>>

\* Lines 24-27
AbortReadOnly(w) ==
    /\ wk[w].pc = "idle"
    /\ \E req \in Requests :
          /\ req.ReadOnly
          /\ Handle(w, [Waiting EXCEPT !.pc = "done", !.req = req,
                                       !.status = StatusForbidden], events)

\* Lines 29-32
AbortUnauthorized(w) ==
    /\ wk[w].pc = "idle"
    /\ \E req \in Requests :
          /\ ~req.ReadOnly /\ req.Unauthorized
          /\ Handle(w, [Waiting EXCEPT !.pc = "done", !.req = req,
                                       !.status = StatusUnauthorized], events)

\* Lines 38-41
AbortBadRequest(w) ==
    /\ wk[w].pc = "idle"
    /\ \E req \in Requests :
          /\ ~req.ReadOnly /\ ~req.Unauthorized /\ req.BodyErr
          /\ Handle(w, [Waiting EXCEPT !.pc = "done", !.req = req,
                                       !.status = StatusBadRequest], events)

\* Lines 43-64: the call of imp.Start.
ImpStart(w) ==
    /\ wk[w].pc = "idle"
    /\ \E req \in Requests :
          /\ ~req.ReadOnly /\ ~req.Unauthorized /\ ~req.BodyErr
          /\ Handle(w, [Waiting EXCEPT !.pc = "importing", !.req = req,
                                       !.started = TRUE], events)

\* imp.Start returns.
ImpReturn(w) ==
    /\ wk[w].pc = "importing"
    /\ Handle(w, [wk[w] EXCEPT !.pc = "imported", !.returned = TRUE], events)

\* Lines 66-82
ImportCompleted(w) ==
    /\ wk[w].pc = "imported"
    /\ Handle(w, [wk[w] EXCEPT !.pc = "done", !.status = StatusOK], Completed(events, w))

NextImport ==
    \/ \E w \in Workers : AbortReadOnly(w)
    \/ \E w \in Workers : AbortUnauthorized(w)
    \/ \E w \in Workers : AbortBadRequest(w)
    \/ \E w \in Workers : ImpStart(w)
    \/ \E w \in Workers : ImpReturn(w)
    \/ \E w \in Workers : ImportCompleted(w)

SpecImport == InitImport /\ [][NextImport]_vars

\* The topics request w has published, in order.
TopicsOf(w) ==
    LET F[i \in 0..Len(events)] ==
            IF i = 0 THEN <<>>
            ELSE IF events[i][2] = w THEN Append(F[i - 1], events[i][1]) ELSE F[i - 1]
    IN  F[Len(events)]

Rejected(req) == req.ReadOnly \/ req.Unauthorized \/ req.BodyErr

\* C24: a request has published import.completed, index.completed and
\* config.updated, in this order and each once, if it was answered with 200,
\* and nothing before; it has published only after imp.Start returned; a
\* request of a read-only instance is answered with 403, else one without
\* authorization with 401, else one whose body does not parse with 400, and
\* these start no import and publish nothing.
C24_ImportEvents ==
    \A w \in Workers :
        /\ TopicsOf(w) \in {<<>>, <<"import.completed", "index.completed", "config.updated">>}
        /\ TopicsOf(w) # <<>> <=> wk[w].status = StatusOK
        /\ TopicsOf(w) # <<>> => wk[w].started /\ wk[w].returned
        /\ wk[w].returned => wk[w].started
        /\ wk[w].pc = "done"
             => /\ wk[w].status = (IF wk[w].req.ReadOnly THEN StatusForbidden
                                   ELSE IF wk[w].req.Unauthorized THEN StatusUnauthorized
                                   ELSE IF wk[w].req.BodyErr THEN StatusBadRequest
                                   ELSE StatusOK)
                /\ Rejected(wk[w].req) => ~wk[w].started /\ TopicsOf(w) = <<>>
                /\ ~Rejected(wk[w].req) => TopicsOf(w) # <<>>
        /\ wk[w].pc # "done" => wk[w].status = 0

\* One request was rejected as unauthorized and the other has completed its
\* import and published the three events.
C24_Witness ==
    \E v, w \in Workers :
        /\ wk[v].pc = "done" /\ wk[v].status = StatusUnauthorized /\ TopicsOf(v) = <<>>
        /\ wk[w].pc = "done" /\ wk[w].status = StatusOK /\ wk[w].req.Move
        /\ events = <<<<"import.completed", w>>, <<"index.completed", w>>,
                      <<"config.updated", w>>>>

(***************************************************************************)
(* SpecClassify: classifyImage applied to JPEGs whose thumbnails carry     *)
(* labels of uncertainty 0..100 and of two priorities, or fail.            *)
(***************************************************************************)
Cat == Label("cat", 20, 0, "image", <<>>)
Dog == Label("dog", 90, 0, "image", <<>>)
Fox == Label("fox", 60, 0, "image", <<>>)
Sky == Label("sky", 100, 1, "image", <<>>)
Sea == Label("sea", 0, 0, "image", <<>>)

ClassLabels == {Cat, Dog, Fox, Sky, Sea}

TileResults ==
    {NoThumb, Thumb(<<>>)} \cup {Thumb(<<a>>) : a \in ClassLabels}
    \cup {Thumb(<<a, b>>) : a \in ClassLabels, b \in ClassLabels}

ClassMedia ==
    {[Jpeg("2021/k.jpg", "k", "h9", 9) EXCEPT
        !.AspectRatio = ratio,
        !.Classify = [tile_224 |-> tile, left_224 |-> left, right_224 |-> right]]
     : ratio \in {1, 2}, tile \in TileResults,
       left \in {NoThumb, Thumb(<<Dog>>), Thumb(<<Sky>>)},
       right \in {NoThumb, Thumb(<<Cat>>)}}

Classify ==
    \E m \in ClassMedia :
        /\ calls < MaxCalls
        /\ supplied' = classifyImage(m)
        /\ inp' = [m |-> m, o |-> NoOptions, x |-> DefaultEnv]
        /\ op' = "classify"
        /\ calls' = calls + 1
        /\ UNCHANGED <<db, events, result, edits, prev, wk, locks>>

NextClassify == Classify

SpecClassify == Init /\ [][NextClassify]_vars

\* The labels of sorted whose confidence is above a third (integer division)
\* of the confidence of the first label of sorted.
Retained(sorted) ==
    IF sorted = <<>> THEN <<>>
    ELSE LET Confident(label) ==
                 (100 - label.Uncertainty) > ((100 - sorted[1].Uncertainty) \div 3)
         IN  SelectSeq(sorted, Confident)

\* C25: classifyImage returns, in sorted order, the labels of the sorted
\* concatenation of the labels of the thumbnails that did not fail whose
\* confidence is above a third of the confidence of the first sorted label.
C25_Threshold ==
    op = "classify" => supplied = Retained(SortLabels(ThumbLabels(inp.m)))

(***************************************************************************)
(* Properties of keyword synthesis (Spec).                                 *)
(***************************************************************************)
IsPrefix(a, b) == Len(a) <= Len(b) /\ SubSeq(b, 1, Len(a)) = a

NoDuplicate(w) == \A i, j \in 1..Len(w) : w[i] = w[j] => i = j

\* The file had no row, or a row of another size or modified-time.
FileChanged(d, m) ==
    RowOf(d, m) = 0 \/ Changed(d.files[RowOf(d, m)], m.Size, m.Modified)

\* C26: an Index call that writes a photo the catalog held leaves its stored
\* keywords as they were unless the file is primary and has changed or
\* UpdateKeywords is set; then the new keywords start with the words stored
\* before, in their order, followed by the other words, among them the
\* file's main color, and hold no word twice: no stored keyword is dropped.
C26_Keywords ==
    [][(IsCall /\ result'.Status \in {IndexAdded, IndexUpdated}
        /\ result'.PhotoID \in Ids(db.photos))
        => \E old \in {db.photos[result'.PhotoID].Description.PhotoKeywords},
              new \in {db'.photos[result'.PhotoID].Description.PhotoKeywords},
              file \in {db'.files[result'.FileID]} :
             IF file.FilePrimary /\ (FileChanged(db, inp'.m) \/ inp'.o.UpdateKeywords)
             THEN /\ IsPrefix(old, new)
                  /\ NoDuplicate(new)
                  /\ file.FileMainColor # "" => \E i \in 1..Len(new) : new[i] = file.FileMainColor
             ELSE new = old]_vars

(***************************************************************************)
(* SpecLabels: two workers whose Index calls have reached addLabels (line  *)
(* 360), each for a photo of its own.  A step is one turn of the loop of   *)
(* lines 494-532.  events holds every topic published so far and supplied  *)
(* every label handled so far, in the order of the steps.                  *)
(***************************************************************************)
LabelLists ==
    {<<Label("dog", 10, 0, "image", <<"animal">>), Label("square", 30, 0, "image", <<>>)>>,
     <<Label("dog", 40, 0, "image", <<>>), Label("dog", 5, 0, "image", <<>>)>>,
     <<Label("animal", 50, 0, "image", <<>>)>>,
     <<LocationLabel("square", 0, -1), Label("cat", 20, 0, "image", <<"animal">>)>>}

NoLabels == [pc |-> "idle", photoId |-> 0, todo |-> <<>>]

InitLabels ==
    /\ db = EmptyDb
    /\ events = <<>>
    /\ result = ZeroResult
    /\ op = "init"
    /\ inp = [m |-> NilMedia, o |-> NoOptions, x |-> DefaultEnv]
    /\ calls = 0
    /\ edits = 0
    /\ supplied = <<>>
    /\ prev = [op |-> "init", inp |-> [m |-> NilMedia, o |-> NoOptions, x |-> DefaultEnv],
               result |-> ZeroResult]
    /\ wk = [w \in Workers |-> NoLabels]
    /\ locks = {}

\* Lines 358-361: addLabels is called with the labels of the photo.
CallAddLabels(w) ==
    /\ wk[w].pc = "idle"
    /\ calls < MaxCalls
    /\ \E labels \in LabelLists :
          wk' = [wk EXCEPT ![w] = [pc |-> "labels", photoId |-> w, todo |-> labels]]
    /\ calls' = calls + 1
    /\ op' = "addLabels"
    /\ UNCHANGED <<db, events, result, inp, edits, supplied, prev, locks>>

\* Lines 494-532 for one label.
AddLabel(w) ==
    /\ wk[w].pc = "labels"
    /\ \E label \in {Head(wk[w].todo)} :
         \E r \in {addLabel(db, wk[w].photoId, label)} :
            /\ db' = r.db
            /\ events' = events \o r.events
            /\ supplied' = Append(supplied, label)
    /\ wk' = [wk EXCEPT ![w] = IF Len(wk[w].todo) = 1 THEN NoLabels
                                ELSE [@ EXCEPT !.todo = Tail(@)]]
    /\ op' = "label"
    /\ UNCHANGED <<result, inp, calls, edits, prev, locks>>

NextLabels ==
    \/ \E w \in Workers : CallAddLabels(w)
    \/ \E w \in Workers : AddLabel(w)

SpecLabels == InitLabels /\ [][NextLabels]_vars

CountOf(published, topic) ==
    Cardinality({i \in 1..Len(published) : published[i] = topic})

SlugOf(name) == Slug(Title(name))

RECURSIVE Counted(_, _)
\* How many of labels, handled in order with the labels of slugs stored, are
\* not stored when they come and have a priority of 0 or more.
Counted(slugs, labels) ==
    IF labels = <<>> THEN 0
    ELSE LET label == Head(labels)
             categories == {SlugOf(label.Categories[i]) : i \in 1..Len(label.Categories)}
         IN  (IF SlugOf(label.Name) \notin slugs /\ label.Priority >= 0 THEN 1 ELSE 0)
             + Counted(slugs \cup {SlugOf(label.Name)} \cup categories, Tail(labels))

\* C27: the count.labels events published so far are as many as the labels
\* handled so far that had no row when addLabels came to them and had a
\* priority of 0 or more: a label that was stored, by an earlier call, by
\* the other worker, earlier in the same call or as a category, and a label
\* of negative priority publish none; and no label has two rows.
C27_CountLabels ==
    /\ CountOf(events, "count.labels") = Counted({}, supplied)
    /\ CountOf(events, "labels.created") <= Len(db.labels)
    /\ \A i, j \in Ids(db.labels) : db.labels[i].LabelSlug = db.labels[j].LabelSlug => i = j

\* dog was attached to both photos and twice in one call, and animal came as
\* a category before it came as a label: of the three label rows dog and
\* square are counted, once each.
C27_Witness ==
    /\ \A w \in Workers : wk[w].pc = "idle"
    /\ Cardinality({pl \in db.photoLabels : db.labels[pl.LabelID].LabelSlug = SlugOf("dog")}) = 2
    /\ \E i \in 1..Len(supplied) : supplied[i].Name = "animal"
    /\ Len(supplied) = 5
    /\ Len(db.labels) = 3
    /\ CountOf(events, "count.labels") = 2

(***************************************************************************)
(* SpecGate: sequential Index calls on files whose size and modified-time  *)
(* stay the same while their content differs, each call with no Update     *)
(* option or with exactly one.  A file without a row counts as changed     *)
(* whatever the options (lines 99-121), so it is indexed with none.        *)
(***************************************************************************)
\* a.jpg with the size and modified-time of A1 and other content.
A4 ==
    [A2 EXCEPT !.Size = 1, !.Modified = 1,
               !.Meta.TakenAt = T2021, !.Meta.TakenAtLocal = T2021,
               !.NSFW.NSFW = TRUE,
               !.Camera = <<"Pixel 3", "Google">>, !.Lens = <<"Wide", "Google">>,
               !.Exposure = "1/250", !.Width = 300, !.Height = 400]

\* b.jpg: another photo taken on the day of A1, at the same place.
B2 == [B1 EXCEPT !.Hash = "h5"]

GateMedia == {A1, A4, B2}

GateOptions ==
    {NoOptions,
     [NoOptions EXCEPT !.UpdateExif = TRUE],
     [NoOptions EXCEPT !.UpdateCamera = TRUE],
     [NoOptions EXCEPT !.UpdateColors = TRUE],
     [NoOptions EXCEPT !.UpdateSize = TRUE],
     [NoOptions EXCEPT !.UpdateKeywords = TRUE],
     [NoOptions EXCEPT !.UpdateLabels = TRUE],
     [NoOptions EXCEPT !.UpdateTitle = TRUE],
     [NoOptions EXCEPT !.UpdateLocation = TRUE]}

GateCall ==
    \E m \in GateMedia, o \in GateOptions :
        /\ (m = B2 \/ NamedRows(db, m) = {}) => o = NoOptions
        /\ Call(m, o, DefaultEnv)

NextGate == GateCall

SpecGate == Init /\ [][NextGate]_vars

HasSource(labels, source) == \E i \in 1..Len(labels) : labels[i].Source = source

\* What a call left of an analysis in the rows p, f (before) and q, g (after).
ClassifierRan(p, q) == HasSource(supplied', "image") \/ q.PhotoNSFW # p.PhotoNSFW

ExifMerged(p, q, f, g) ==
    \/ <<q.TakenAt, q.TakenAtLocal, q.TimeZone>> # <<p.TakenAt, p.TakenAtLocal, p.TimeZone>>
    \/ <<q.PhotoLat, q.PhotoLng, q.PhotoAltitude>> # <<p.PhotoLat, p.PhotoLng, p.PhotoAltitude>>
    \/ q.CameraSerial # p.CameraSerial
    \/ g.FileUUID # f.FileUUID

CameraInterned(p, q) ==
    \/ <<q.CameraID, q.LensID, q.PhotoExposure>> # <<p.CameraID, p.LensID, p.PhotoExposure>>
    \/ db'.cameras # db.cameras
    \/ db'.lenses # db.lenses

LocationResolved(p, q) ==
    \/ q.LocationID # p.LocationID
    \/ db'.locations # db.locations
    \/ HasSource(supplied', "location")

PlaceChanged(p, q) ==
    \/ <<q.PlaceID, q.PhotoCountry, q.LocationEstimated>>
         # <<p.PlaceID, p.PhotoCountry, p.LocationEstimated>>
    \/ db'.places # db.places

LocationEstimated(p, q) == q.LocationEstimated /\ ~p.LocationEstimated

\* C28: an Index call for a file whose row has its size and modified-time
\* and whose photo exists, when it is not skipped, leaves a trace of an
\* analysis only under that analysis's options: image labels and the NSFW
\* flag under UpdateKeywords, UpdateLabels or UpdateTitle, merged EXIF fields
\* under UpdateExif, camera and lens under UpdateCamera, a resolved location
\* under UpdateKeywords, UpdateLocation or UpdateTitle, an estimated place
\* under UpdateLocation, the main color under UpdateColors, the size under
\* UpdateSize, the keywords and the other description texts, which the EXIF
\* merge and the keyword synthesis both write, under UpdateKeywords or
\* UpdateExif; with every option unset it leaves none and adds no label.
C28_Gating ==
    [][(IsCall /\ ~FileChanged(db, inp'.m) /\ result'.Status = IndexUpdated
        /\ result'.PhotoID \in Ids(db.photos))
        => \E o \in {inp'.o},
              p \in {db.photos[result'.PhotoID]},
              q \in {db'.photos[result'.PhotoID]},
              f \in {db.files[RowOf(db, inp'.m)]},
              g \in {db'.files[RowOf(db, inp'.m)]} :
             /\ ClassifierRan(p, q)
                  => o.UpdateKeywords \/ o.UpdateLabels \/ o.UpdateTitle
             /\ ExifMerged(p, q, f, g) => o.UpdateExif
             /\ CameraInterned(p, q) => o.UpdateCamera
             /\ LocationResolved(p, q)
                  => o.UpdateKeywords \/ o.UpdateLocation \/ o.UpdateTitle
             /\ PlaceChanged(p, q)
                  => o.UpdateKeywords \/ o.UpdateLocation \/ o.UpdateTitle
             /\ LocationEstimated(p, q) => o.UpdateLocation
             /\ g.FileMainColor # f.FileMainColor => o.UpdateColors
             /\ <<g.FileWidth, g.FileHeight, g.FilePortrait>>
                  # <<f.FileWidth, f.FileHeight, f.FilePortrait>> => o.UpdateSize
             /\ q.Description # p.Description => o.UpdateKeywords \/ o.UpdateExif
             /\ o = NoOptions
                  => /\ supplied' = <<>>
                     /\ db'.labels = db.labels /\ db'.photoLabels = db.photoLabels]_vars

\* The file a.jpg, indexed with the content of A1, was indexed again with
\* other content of the same size and modified-time and no option set: the
\* rows keep the color, size, NSFW flag, camera and date of A1.
C28_Witness ==
    /\ op = "index" /\ inp.m = A4 /\ inp.o = NoOptions
    /\ result.Status = IndexUpdated
    /\ prev.op = "index" /\ prev.inp.m = A1 /\ prev.result.Status = IndexAdded
    /\ db.files[result.FileID].FileMainColor = A1.MainColor
    /\ db.files[result.FileID].FileWidth = A1.Width
    /\ ~db.photos[result.PhotoID].PhotoNSFW
    /\ db.photos[result.PhotoID].LocationID = Munich.ID
    /\ db.cameras = <<A1.Camera>>
    /\ supplied = <<>>

(***************************************************************************)
(* SpecCam: two workers at lines 200-201 of concurrent Index calls.  Each  *)
(* FirstOrCreate is one step of the store; the two of a call are separate  *)
(* steps, so those of the workers interleave.                              *)
(***************************************************************************)
\* a.jpg of a camera whose make the metadata does not name.
A5 == [A4 EXCEPT !.Camera = <<"Pixel 3", "">>, !.Lens = <<"Wide", "">>]

CamMedia == {A1, A4, A5}

NoCam == [pc |-> "idle", m |-> NilMedia, CameraID |-> 0, LensID |-> 0]

InitCam ==
    /\ db = EmptyDb
    /\ events = <<>>
    /\ result = ZeroResult
    /\ op = "init"
    /\ inp = [m |-> NilMedia, o |-> NoOptions, x |-> DefaultEnv]
    /\ calls = 0
    /\ edits = 0
    /\ supplied = <<>>
    /\ prev = [op |-> "init", inp |-> [m |-> NilMedia, o |-> NoOptions, x |-> DefaultEnv],
               result |-> ZeroResult]
    /\ wk = [w \in Workers |-> NoCam]
    /\ locks = {}

\* Line 198: a call reaches the camera of its file.
CamBegin(w) ==
    /\ wk[w].pc = "idle"
    /\ calls < MaxCalls
    /\ \E m \in CamMedia : wk' = [wk EXCEPT ![w] = [NoCam EXCEPT !.pc = "camera", !.m = m]]
    /\ calls' = calls + 1
    /\ op' = "camera"
    /\ UNCHANGED <<db, events, result, inp, edits, supplied, prev, locks>>

\* Variant: the camera is created without looking for its row.
CameraCreate(w) ==
    /\ wk[w].pc = "camera"
    /\ db' = [db EXCEPT !.cameras = Append(@, wk[w].m.Camera)]
    /\ wk' = [wk EXCEPT ![w].pc = "lens", ![w].CameraID = Len(db.cameras) + 1]
    /\ op' = "camera.FirstOrCreate"
    /\ UNCHANGED <<events, result, inp, calls, edits, supplied, prev, locks>>

\* Line 200
CameraFirstOrCreate(w) ==
    /\ wk[w].pc = "camera"
    /\ db' = [db EXCEPT !.cameras = Intern(@, wk[w].m.Camera)]
    /\ wk' = [wk EXCEPT ![w].pc = "lens",
                        ![w].CameraID = InternId(db.cameras, wk[w].m.Camera)]
    /\ op' = "camera.FirstOrCreate"
    /\ UNCHANGED <<events, result, inp, calls, edits, supplied, prev, locks>>

\* Line 201
LensFirstOrCreate(w) ==
    /\ wk[w].pc = "lens"
    /\ db' = [db EXCEPT !.lenses = Intern(@, wk[w].m.Lens)]
    /\ wk' = [wk EXCEPT ![w].pc = "idle",
                        ![w].LensID = InternId(db.lenses, wk[w].m.Lens)]
    /\ op' = "lens.FirstOrCreate"
    /\ UNCHANGED <<events, result, inp, calls, edits, supplied, prev, locks>>

NextCam ==
    \E w \in Workers : CamBegin(w) \/ CameraFirstOrCreate(w) \/ LensFirstOrCreate(w)

SpecCam == InitCam /\ [][NextCam]_vars

NoTwoRows(rows) == \A i, j \in Ids(rows) : rows[i] = rows[j] => i = j

HasCamera(w) == wk[w].pc = "lens" \/ (wk[w].pc = "idle" /\ ~wk[w].m.Nil)
HasLens(w) == wk[w].pc = "idle" /\ ~wk[w].m.Nil

\* C29: neither the cameras nor the lenses hold two rows with the same
\* (model, make); a worker past the FirstOrCreate of its camera or lens
\* holds an id >= 1, the id of the row with the (model, make) of its file;
\* workers with the same (model, make) hold the same id, whether their
\* calls ran one after the other or interleaved.
C29_Interned ==
    /\ NoTwoRows(db.cameras) /\ NoTwoRows(db.lenses)
    /\ \A w \in Workers :
         /\ HasCamera(w) => /\ wk[w].CameraID >= 1
                            /\ wk[w].CameraID \in Ids(db.cameras)
                            /\ db.cameras[wk[w].CameraID] = wk[w].m.Camera
         /\ HasLens(w) => /\ wk[w].LensID >= 1
                          /\ wk[w].LensID \in Ids(db.lenses)
                          /\ db.lenses[wk[w].LensID] = wk[w].m.Lens
    /\ \A v, w \in Workers :
         /\ (HasCamera(v) /\ HasCamera(w) /\ wk[v].m.Camera = wk[w].m.Camera)
              => wk[v].CameraID = wk[w].CameraID
         /\ (HasLens(v) /\ HasLens(w) /\ wk[v].m.Lens = wk[w].m.Lens)
              => wk[v].LensID = wk[w].LensID

\* A call for a camera without a make ran, then one call of each worker for
\* the camera of the same model with a make: the two workers hold the one
\* row of their camera and lens, the camera without a make has its own row.
C29_Witness ==
    /\ calls = MaxCalls
    /\ \A w \in Workers : HasLens(w)
    /\ wk[1].m = A4 /\ wk[2].m = A4
    /\ wk[1].CameraID = 2 /\ wk[2].CameraID = 2
    /\ db.cameras = <<A5.Camera, A4.Camera>>
    /\ db.lenses = <<A5.Lens, A4.Lens>>

(***************************************************************************)
(* SpecPage: the labels page (p-page-labels).  wk holds the data of the    *)
(* component and, as pending, the Label.search requests that have not      *)
(* settled, in the order they were issued.  A request settles at any time  *)
(* after it was issued, in any order, with a response or an error.         *)
(***************************************************************************)
\* lastFilter = {} (lines 150, 176): the filter of no query.
NoFilter == [q |-> "{}", all |-> "{}"]

Filter(q) == [q |-> q, all |-> ""]

\* The queries of the routes
Queries == {"", "x"}

\* The labels of the server that match a filter, in its order.
ServerLabels(filter) == IF filter.q = "" THEN <<1, 2, 3, 4, 5>> ELSE <<1, 2>>

\* Label.search(params): response.models, at most count labels from offset.
Models(params) ==
    LET all == ServerLabels(params.filter)
        last == IF params.offset + params.count < Len(all)
                THEN params.offset + params.count ELSE Len(all)
    IN  SubSeq(all, params.offset + 1, last)

\* Lines 155-184, with a page size of 2 for the 24 of line 170.
data(q) ==
    [listen |-> FALSE, dirty |-> FALSE, results |-> <<>>, scrollDisabled |-> TRUE,
     loading |-> TRUE, pageSize |-> 2, offset |-> 0, page |-> 0,
     filter |-> Filter(q), lastFilter |-> NoFilter, pending |-> <<>>]

\* Lines 217-258, up to the request.
loadMore(p) ==
    IF p.scrollDisabled THEN p
    ELSE [p EXCEPT
            !.scrollDisabled = TRUE,
            !.listen = FALSE,
            !.pending = Append(@, [kind |-> "loadMore",
                                   count |-> IF p.dirty THEN (p.page + 2) * p.pageSize
                                             ELSE p.pageSize,
                                   offset |-> IF p.dirty THEN 0 ELSE p.offset,
                                   filter |-> p.lastFilter])]

\* Lines 292-299
refresh(p) ==
    IF p.loading THEN p
    ELSE loadMore([p EXCEPT !.loading = TRUE, !.page = 0, !.dirty = TRUE,
                            !.scrollDisabled = FALSE])

\* Lines 300-337, up to the request.
search(p) ==
    IF p.lastFilter = p.filter THEN [p EXCEPT !.scrollDisabled = TRUE]
    ELSE [p EXCEPT
            !.scrollDisabled = TRUE,
            !.lastFilter = p.filter,
            !.offset = 0,
            !.page = 0,
            !.loading = TRUE,
            !.listen = FALSE,
            !.pending = Append(@, [kind |-> "search", count |-> p.pageSize,
                                   offset |-> 0, filter |-> p.filter])]

\* Lines 253-257 and 332-336
finally(p) == [p EXCEPT !.dirty = FALSE, !.loading = FALSE, !.listen = TRUE]

\* Lines 237-250: the response of a loadMore request.
loadMoreThen(p, params, models) ==
    LET p1 == [p EXCEPT !.results = IF p.dirty THEN models ELSE @ \o models,
                        !.scrollDisabled = Len(models) < params.count]
    IN  IF p1.scrollDisabled THEN [p1 EXCEPT !.offset = params.offset]
        ELSE [p1 EXCEPT !.offset = params.offset + params.count, !.page = @ + 1]

\* Lines 251-252
loadMoreCatch(p) == [p EXCEPT !.scrollDisabled = FALSE]

\* Lines 319-331: the response of a search request.
searchThen(p, models) ==
    [p EXCEPT !.offset = p.pageSize, !.results = models,
              !.scrollDisabled = Len(models) < p.pageSize]

Without(requests, i) == SubSeq(requests, 1, i - 1) \o SubSeq(requests, i + 1, Len(requests))

\* Lines 383-390: created() has called search().
InitPage ==
    /\ db = EmptyDb
    /\ events = <<>>
    /\ result = ZeroResult
    /\ op = "created"
    /\ inp = [m |-> NilMedia, o |-> NoOptions, x |-> DefaultEnv]
    /\ calls = 0
    /\ edits = 0
    /\ supplied = <<>>
    /\ prev = [op |-> "init", inp |-> [m |-> NilMedia, o |-> NoOptions, x |-> DefaultEnv],
               result |-> ZeroResult]
    /\ wk \in {search(data(q)) : q \in Queries}
    /\ locks = {}

PageStep(name, page) ==
    /\ wk' = page
    /\ op' = name
    /\ UNCHANGED <<db, events, result, inp, edits, supplied, prev, locks>>

\* The infinite scroll (line 2) or touchmove.bottom (line 389)
LoadMore == calls < MaxCalls /\ calls' = calls + 1 /\ PageStep("loadMore", loadMore(wk))

\* The refresh button (line 22) or touchmove.top (line 388)
Refresh == calls < MaxCalls /\ calls' = calls + 1 /\ PageStep("refresh", refresh(wk))

\* Lines 144-153: the route changed.
Route ==
    /\ calls < MaxCalls /\ calls' = calls + 1
    /\ \E q \in Queries :
          PageStep("route", search([wk EXCEPT !.filter = Filter(q), !.lastFilter = NoFilter]))

\* Lines 338-379: a labels.created event.
LabelCreated ==
    /\ calls < MaxCalls /\ calls' = calls + 1
    /\ wk.listen
    /\ PageStep("labels.created", [wk EXCEPT !.dirty = TRUE])

\* A request settles with a response.
Resolve ==
    \E i \in 1..Len(wk.pending) :
      \E params \in {wk.pending[i]}, p \in {[wk EXCEPT !.pending = Without(@, i)]} :
        /\ PageStep("then",
                    finally(IF params.kind = "search" THEN searchThen(p, Models(params))
                            ELSE loadMoreThen(p, params, Models(params))))
        /\ UNCHANGED calls

\* A request settles with an error.
Reject ==
    \E i \in 1..Len(wk.pending) :
      \E params \in {wk.pending[i]}, p \in {[wk EXCEPT !.pending = Without(@, i)]} :
        /\ PageStep("catch", finally(IF params.kind = "search" THEN p ELSE loadMoreCatch(p)))
        /\ UNCHANGED calls

NextPage == LoadMore \/ Refresh \/ Route \/ LabelCreated \/ Resolve \/ Reject

SpecPage == InitPage /\ [][NextPage]_vars

NoTwice(results) == \A i, j \in 1..Len(results) : results[i] = results[j] => i = j

\* C30: at most one request of the labels page is pending at any time; a
\* loadMore while scrollDisabled changes nothing, and a loadMore that issues
\* a request has set scrollDisabled; a refresh while loading changes
\* nothing; when a request settles, loading and dirty are false and listen
\* is true; the results never hold a label twice.
C30_OneRequest ==
    [][/\ Len(wk'.pending) <= 1
       /\ NoTwice(wk'.results)
       /\ (op' = "loadMore" /\ wk.scrollDisabled) => wk' = wk
       /\ (op' = "loadMore" /\ Len(wk'.pending) > Len(wk.pending)) => wk'.scrollDisabled
       /\ (op' = "refresh" /\ wk.loading) => wk' = wk
       /\ op' \in {"then", "catch"} => ~wk'.loading /\ ~wk'.dirty /\ wk'.listen]_vars

====
